---- MODULE Spec2Model ----
(***************************************************************************)
(* Model of the Growatt v6 proxy server: the codec (utils.rs), the message *)
(* decoder (data_message.rs, data/v6/message_type.rs) and the proxy        *)
(* session (server.rs: handle_connection, copy_with_abort and the two      *)
(* chunk handlers).                                                        *)
(*                                                                         *)
(* Bytes are naturals 0..255, byte strings are sequences of bytes, text is *)
(* a sequence of code points.  Option<T> is <<>> (None) or <<v>> (Some).    *)
(***************************************************************************)
EXTENDS Integers, Sequences, FiniteSets, TLC

\* ------------------------------------------------------------------------
\* Bounds of the model (not program constants)
\* ------------------------------------------------------------------------

\* number of chunks the two peers send in one session, both directions together
MaxReads == 3

\* the largest number of bytes the writer accepts in one partial write
WriteUnit == 4

\* ------------------------------------------------------------------------
\* Small helpers
\* ------------------------------------------------------------------------

None == <<>>

Some(v) == <<v>>

Min(a, b) == IF a < b THEN a ELSE b

RECURSIVE Xor(_, _)
\* u8 ^ u8 (utils.rs:15), bit by bit
Xor(a, b) ==
    IF a = 0 /\ b = 0 THEN 0
    ELSE (((a % 2) + (b % 2)) % 2) + 2 * Xor(a \div 2, b \div 2)

\* a mask that starts with a small g
DefaultMaskMut == <<103, 114, 111, 119, 97, 116, 116>>

\* "Growatt".as_bytes() (utils.rs:5)
DefaultMask == <<71, 114, 111, 119, 97, 116, 116>>

RECURSIVE UnscrambleLoop(_, _, _, _)
\* the zip of (8..ndecdata) with the cycling mask index (utils.rs:14-17);
\* i is the 0-based index into data, j the 0-based index into the mask
UnscrambleLoop(data, mask, i, acc) ==
    IF i >= Len(data) \/ Len(mask) = 0 THEN acc
    ELSE UnscrambleLoop(data, mask, i + 1,
                        Append(acc, Xor(data[i + 1], mask[((i - 8) % Len(mask)) + 1])))

\* an unscrambling that adds the mask byte where the code xors it
unscramble_dataMut(data) ==
    IF Len(data) < 8
    THEN [ok |-> FALSE, val |-> <<>>]
    ELSE [ok |-> TRUE,
          val |-> [i \in 1..Len(data) |->
                     IF i <= 8 THEN data[i]
                     ELSE (data[i] + DefaultMask[((i - 9) % 7) + 1]) % 256]]

\* utils::unscramble_data(data, None) (utils.rs:3-20)
unscramble_data(data) ==
    IF Len(data) < 8
    THEN [ok |-> FALSE, val |-> <<>>]
    ELSE [ok |-> TRUE,
          val |-> UnscrambleLoop(data, DefaultMask, 8, SubSeq(data, 1, 8))]

\* utils::hex_bytes_to_ascii: every byte becomes the code point of the same
\* number (utils.rs:22-24)
hex_bytes_to_ascii(hex_bytes) == [i \in 1..Len(hex_bytes) |-> hex_bytes[i]]

\* char::is_alphanumeric on the code points 0..255
is_alphanumeric(c) ==
    \/ c \in 48..57
    \/ c \in 65..90
    \/ c \in 97..122
    \/ c \in {170, 178, 179, 181, 185, 186, 188, 189, 190}
    \/ c \in 192..214
    \/ c \in 216..246
    \/ c \in 248..255

RECURSIVE FilterAlnum(_)
\* .chars().filter(|c| c.is_alphanumeric()).collect::<String>()
FilterAlnum(s) ==
    IF s = <<>> THEN <<>>
    ELSE IF is_alphanumeric(Head(s))
         THEN <<Head(s)>> \o FilterAlnum(Tail(s))
         ELSE FilterAlnum(Tail(s))

\* ------------------------------------------------------------------------
\* Message type (data/v6/message_type.rs)
\* ------------------------------------------------------------------------

\* the table with the ping byte read as decimal 16
MessageTypeFromMut(byte) ==
    CASE byte = 3  -> "Data3"
      [] byte = 4  -> "Data4"
      [] byte = 16 -> "Ping"
      [] byte = 24 -> "Configure"
      [] byte = 25 -> "Identify"
      [] OTHER     -> "Unknown"

\* impl From<u8> for MessageType
MessageTypeFrom(byte) ==
    CASE byte = 3  -> "Data3"
      [] byte = 4  -> "Data4"
      [] byte = 22 -> "Ping"
      [] byte = 24 -> "Configure"
      [] byte = 25 -> "Identify"
      [] OTHER     -> "Unknown"

\* ------------------------------------------------------------------------
\* Number and date rendering used by data4
\* ------------------------------------------------------------------------

RECURSIVE U32ToString(_)
\* u32::to_string: decimal digits, no leading zeros
U32ToString(n) ==
    IF n < 10 THEN <<48 + n>>
    ELSE Append(U32ToString(n \div 10), 48 + (n % 10))

RECURSIVE PadLeft(_, _)
\* digits of n, zero padded on the left to w characters
PadLeft(n, w) ==
    IF w = 0 THEN <<>> ELSE Append(PadLeft(n \div 10, w - 1), 48 + (n % 10))

RECURSIVE FromBeBytes(_)
\* u32::from_be_bytes on a big-endian byte sequence
FromBeBytes(bs) ==
    IF bs = <<>> THEN 0
    ELSE bs[Len(bs)] + 256 * FromBeBytes(SubSeq(bs, 1, Len(bs) - 1))

IsLeap(y) == (y % 4 = 0) /\ ((y % 100 # 0) \/ (y % 400 = 0))

DaysInMonth(y, m) ==
    IF m \in {1, 3, 5, 7, 8, 10, 12} THEN 31
    ELSE IF m \in {4, 6, 9, 11} THEN 30
    ELSE IF IsLeap(y) THEN 29 ELSE 28

\* NaiveDate::from_ymd_opt(..).is_some()
ValidYmd(y, m, d) == m \in 1..12 /\ d >= 1 /\ d <= DaysInMonth(y, m)

\* NaiveDate::and_hms_opt(..).is_some()
ValidHms(h, mi, s) == h <= 23 /\ mi <= 59 /\ s <= 59

\* NaiveDateTime::to_string: "YYYY-MM-DD HH:MM:SS"
DateToString(y, m, d, h, mi, s) ==
    PadLeft(y, 4) \o <<45>> \o PadLeft(m, 2) \o <<45>> \o PadLeft(d, 2) \o <<32>>
    \o PadLeft(h, 2) \o <<58>> \o PadLeft(mi, 2) \o <<58>> \o PadLeft(s, 2)

RECURSIVE StripZeros(_)
\* drops the trailing '0' characters of a fraction part
StripZeros(s) ==
    IF s # <<>> /\ s[Len(s)] = 48 THEN StripZeros(SubSeq(s, 1, Len(s) - 1)) ELSE s

\* the powers of ten a u32 can hold
Pow10 == {1, 10, 100, 1000, 10000, 100000, 1000000, 10000000, 100000000,
          1000000000}

\* the number of digits after the point of 1/n, for n a power of ten
Pow10Digits(n) ==
    CASE n = 1 -> 0 [] n = 10 -> 1 [] n = 100 -> 2 [] n = 1000 -> 3
      [] n = 10000 -> 4 [] n = 100000 -> 5 [] n = 1000000 -> 6
      [] n = 10000000 -> 7 [] n = 100000000 -> 8 [] n = 1000000000 -> 9

\* ((value as f32) / (div as f32)).to_string() (data_message.rs:145), where
\* the text can be computed with integers:
\*  - a divisor 0 gives "NaN" for the value 0 and "inf" for any other;
\*  - a value below 2^24 (the cast is exact) that the divisor divides gives
\*    the integer quotient;
\*  - a value below 10^6 and a divisor that is a power of ten give the
\*    decimal quotient: the division is correctly rounded and a decimal of
\*    at most 6 significant digits is the shortest text that reads back as
\*    its nearest f32.
\* For any other pair (a value of 2^24 or more, which the cast rounds, or a
\* quotient that is no short decimal) the operator has no value.
F32DivToString(value, div) ==
    CASE div = 0 ->
           IF value = 0 THEN <<78, 97, 78>> ELSE <<105, 110, 102>>
      [] div # 0 /\ value < 16777216 /\ value % div = 0 ->
           U32ToString(value \div div)
      [] div # 0 /\ value < 1000000 /\ value % div # 0 /\ div \in Pow10 ->
           U32ToString(value \div div) \o <<46>>
           \o StripZeros(PadLeft(value % div, Pow10Digits(div)))

\* ------------------------------------------------------------------------
\* DataMessage decoders (data_message.rs)
\* ------------------------------------------------------------------------

\* Vec::from(slice) padded with zero bytes at the front up to 4 bytes
\* (data_message.rs:109-113); only evaluated for slices of at most 4 bytes
FourBytes(slice) == [i \in 1..(4 - Len(slice)) |-> 0] \o slice

\* an insert that keeps the value a key already has
MapInsertMut(data, key, value) ==
    [k \in (DOMAIN data) \cup {key} |->
        IF k \in DOMAIN data THEN data[k] ELSE value]

\* HashMap::insert: the later value replaces an earlier one of the same key
MapInsert(data, key, value) ==
    [k \in (DOMAIN data) \cup {key} |-> IF k = key THEN value ELSE data[k]]

\* The value of one fragment: the body of the match of data_message.rs:80-147.
\* overflow_checks says whether the build traps the usize subtraction
\* 4 - four_bytes.len(): with the trap a slice longer than 4 bytes panics,
\* without it the count wraps around and the padding loop does not end.
\* A Float fragment has a value here only where F32DivToString has one.
FragmentValue(fragment, slice, overflow_checks) ==
    CASE fragment.fragment_type = "String" ->
           [kind |-> "ok", val |-> FilterAlnum(hex_bytes_to_ascii(slice))]
      [] fragment.fragment_type = "Date" ->
           IF Len(slice) < 6 THEN [kind |-> "panic", val |-> <<>>]
           ELSE LET year == 2000 + slice[1]
                IN  IF ValidYmd(year, slice[2], slice[3])
                       /\ ValidHms(slice[4], slice[5], slice[6])
                    THEN [kind |-> "ok",
                          val |-> DateToString(year, slice[2], slice[3],
                                               slice[4], slice[5], slice[6])]
                    ELSE [kind |-> "panic", val |-> <<>>]
      [] fragment.fragment_type = "Integer" ->
           IF Len(slice) > 4
           THEN [kind |-> IF overflow_checks THEN "panic" ELSE "hang", val |-> <<>>]
           ELSE [kind |-> "ok", val |-> U32ToString(FromBeBytes(FourBytes(slice)))]
      [] fragment.fragment_type = "Float" ->
           IF Len(slice) > 4
           THEN [kind |-> IF overflow_checks THEN "panic" ELSE "hang", val |-> <<>>]
           ELSE [kind |-> "ok",
                 val |-> F32DivToString(FromBeBytes(FourBytes(slice)),
                                        IF fragment.fraction = None THEN 1
                                        ELSE fragment.fraction[1])]

\* a serial number taken from any fragment of the name
SerialAfterMut(fragment, value, serial_number) ==
    IF fragment.name = "Inverter SN" THEN Some(value) ELSE serial_number

\* serial_number after a fragment: the String arm sets it when the fragment
\* is named "Inverter SN" (data_message.rs:81-90)
SerialAfter(fragment, value, serial_number) ==
    IF fragment.fragment_type = "String" /\ fragment.name = "Inverter SN"
    THEN Some(value) ELSE serial_number

RECURSIVE Data4Loop(_, _, _, _, _, _)
\* the loop over the fragments (data_message.rs:74-157); i is the index of the
\* next fragment, body the bytes after the header
Data4Loop(frags, i, body, data, serial_number, overflow_checks) ==
    IF i > Len(frags)
    THEN [kind |-> "ok", data |-> data, serial_number |-> serial_number]
    ELSE LET fragment == frags[i]
             base_offset == fragment.offset
             end_offset == base_offset + fragment.bytes_len
         IN  IF end_offset > Len(body)
             THEN [kind |-> "panic", data |-> data, serial_number |-> serial_number]
             ELSE LET slice == SubSeq(body, base_offset + 1, end_offset)
                      v == FragmentValue(fragment, slice, overflow_checks)
                  IN  IF v.kind # "ok"
                      THEN [kind |-> v.kind, data |-> data,
                            serial_number |-> serial_number]
                      ELSE Data4Loop(frags, i + 1, body,
                                     MapInsert(data, fragment.name, v.val),
                                     SerialAfter(fragment, v.val, serial_number),
                                     overflow_checks)

\* what stands for the message where none is returned
NoMessage == [raw |-> <<>>, header |-> <<>>, data_type |-> "Unknown",
              data |-> <<>>, time |-> 0, serial_number |-> None]

\* a decoder that files the time it has read among the fields as well
data4Mut(inverter_fragments, bytes, overflow_checks, time) ==
    IF Len(bytes) < 8 THEN [kind |-> "panic", msg |-> NoMessage]
    ELSE LET header == SubSeq(bytes, 1, 8)
             body == SubSeq(bytes, 9, Len(bytes))
             r == Data4Loop(inverter_fragments, 1, body, <<>>, None, overflow_checks)
         IN  [kind |-> r.kind,
              msg |-> IF r.kind = "ok"
                      THEN [raw |-> body, header |-> header, data_type |-> "Data4",
                            data |-> MapInsert(r.data, "time", U32ToString(time)),
                            time |-> time, serial_number |-> r.serial_number]
                      ELSE NoMessage]

\* DataMessage::data4 (data_message.rs:58-169); time is what Local::now()
\* returns at line 69, and it goes into the field `time` only.  The result is
\* [kind, msg]: kind "ok" with the message, "panic" when an index, an unwrap
\* or (with overflow checks) the subtraction panics, "hang" when the padding
\* loop runs on a wrapped count.  raw is the shadowed `bytes`, the body
\* after the header (data_message.rs:66,162).
data4(inverter_fragments, bytes, overflow_checks, time) ==
    IF Len(bytes) < 8 THEN [kind |-> "panic", msg |-> NoMessage]
    ELSE LET header == SubSeq(bytes, 1, 8)
             body == SubSeq(bytes, 9, Len(bytes))
             r == Data4Loop(inverter_fragments, 1, body, <<>>, None, overflow_checks)
         IN  [kind |-> r.kind,
              msg |-> IF r.kind = "ok"
                      THEN [raw |-> body, header |-> header, data_type |-> "Data4",
                            data |-> r.data, time |-> time,
                            serial_number |-> r.serial_number]
                      ELSE NoMessage]

\* a placeholder that does not keep the type it is given
placeholderMut(bytes, message_type, time) ==
    IF Len(bytes) < 8 THEN [kind |-> "panic", msg |-> NoMessage]
    ELSE [kind |-> "ok",
          msg |-> [raw |-> bytes, header |-> SubSeq(bytes, 1, 8),
                   data_type |-> "Unknown", data |-> <<>>,
                   time |-> time, serial_number |-> None]]

\* DataMessage::placeholder (data_message.rs:265-279); time is what
\* Local::now() returns at line 269
placeholder(bytes, message_type, time) ==
    IF Len(bytes) < 8 THEN [kind |-> "panic", msg |-> NoMessage]
    ELSE [kind |-> "ok",
          msg |-> [raw |-> bytes, header |-> SubSeq(bytes, 1, 8),
                   data_type |-> message_type, data |-> <<>>,
                   time |-> time, serial_number |-> None]]

\* readings of the clock: a run of the decoder gets one of them from
\* Local::now(), and two runs need not get the same, nor the later run the
\* later one
Times == {1, 2}

\* the dispatch on the message type in handle_inverter_data
\* (server.rs:50,64-71); time is the clock as the constructor called reads it
Decode(inverter_fragments, bytes, overflow_checks, time) ==
    LET message_type == MessageTypeFrom(bytes[8])
    IN  IF message_type = "Data4"
        THEN data4(inverter_fragments, bytes, overflow_checks, time)
        ELSE placeholder(bytes, message_type, time)

\* ------------------------------------------------------------------------
\* Inputs of the session model
\* ------------------------------------------------------------------------

\* The fragment list of the inverter definition file (Server.inverter)
Schemas ==
    { << [name |-> "Inverter SN", offset |-> 0, bytes_len |-> 1,
          fragment_type |-> "String", fraction |-> None],
         [name |-> "Ppv", offset |-> 1, bytes_len |-> 1,
          fragment_type |-> "Integer", fraction |-> None] >> }

\* a read of 2 bytes: shorter than a header
ShortChunk == <<0, 0>>

\* a Ping frame (type byte 0x16), header only
PingChunk == <<0, 1, 0, 6, 0, 1, 1, 22>>

\* a Data4 frame (type byte 0x04) whose body covers both fragments
Data4Chunk == <<0, 1, 0, 6, 0, 2, 1, 4, 6, 123>>

\* a Data4 frame whose body ends before the second fragment
Data4CutChunk == <<0, 1, 0, 6, 0, 1, 1, 4, 6>>

\* an acknowledgement of the remote server (type byte 0x04, one body byte)
AckChunk == <<0, 1, 0, 6, 0, 1, 1, 4, 71>>

\* what a read() on the inverter side may return
InvChunks == {ShortChunk, PingChunk, Data4Chunk, Data4CutChunk}

\* what a read() on the remote side may return
RemChunks == {ShortChunk, AckChunk}

\* "inv": client_read -> remote_write with handle_data = true,
\* "rem": remote_read -> client_write with handle_data = false
Dirs == {"inv", "rem"}

ChunksOf(d) == IF d = "inv" THEN InvChunks ELSE RemChunks

Pending == [k |-> "pending", bytes |-> <<>>]

\* ------------------------------------------------------------------------
\* State of one proxy session (server.rs)
\* ------------------------------------------------------------------------

VARIABLES
    inverter,          \* Server.inverter: the shared fragment list
    sess,              \* position of handle_connection
    inbound_open,      \* client_stream is open
    upstream_open,     \* remote_server is open
    cancelled,         \* cancellation_token.is_cancelled()
    pc,                \* per direction: position of copy_with_abort
    rdy,               \* per direction: what polling read() yields now
    peer_closed,       \* per direction: the peer has sent EOF or an error
    delivered,         \* per direction: number of read results produced
    buf,               \* per direction: buf[..bytes_read]
    fwd,               \* per direction: bytes_to_forward
    woff,              \* per direction: bytes of fwd already written by write_all
    bytes_forwarded,   \* per direction: the counter of copy_with_abort
    result,            \* per direction: return value of copy_with_abort
    reported,          \* per direction: count logged by handle_connection
    datamessage,       \* the decoded message of handle_inverter_data
    msg_id,            \* id returned by the inverter_messages insert
    todo,              \* keys of datamessage.data not yet iterated
    inverter_messages, \* table inverter_messages
    message_data,      \* table message_data
    remote_messages,   \* table remote_messages
    errlog,            \* error! records and panic messages, in order
    rlog,              \* per direction: the chunks read so far, in order
    out,               \* per direction: the bytes written to the opposite peer
    call,              \* a call of a codec or decoder function: [fn, arg]
    ret,               \* the values that call has returned so far, in order
    listener,          \* position of the listener task of run_server
    last_accept,       \* what the latest listener.accept() returned
    tasks,             \* per accepted connection: position of its spawned task
    cancelled_of,      \* per cancellation token: is_cancelled()
    exits,             \* per accepted connection: how its copy loops have left
    worker_threads     \* worker threads of the runtime: the CPUs of the machine

vars == <<inverter, sess, inbound_open, upstream_open, cancelled, pc, rdy,
          peer_closed, delivered, buf, fwd, woff, bytes_forwarded, result,
          reported, datamessage, msg_id, todo, inverter_messages,
          message_data, remote_messages, errlog, rlog, out, call, ret,
          listener, last_accept, tasks, cancelled_of, exits, worker_threads>>

codecvars == <<call, ret>>

servervars == <<listener, last_accept, tasks, cancelled_of, exits,
                worker_threads>>

\* connections the listener accepts in one run
MaxConns == 3

Conns == 1..MaxConns

\* run_server before the first accept(): the listener task is in its loop
\* and no connection task has been spawned
ServerIdle ==
    /\ listener = "accepting"
    /\ last_accept = "none"
    /\ tasks = [i \in Conns |-> "none"]
    /\ cancelled_of = [i \in Conns |-> FALSE]
    /\ exits = [i \in Conns |-> <<>>]

sockvars == <<inbound_open, upstream_open>>

envvars == <<rdy, peer_closed, delivered>>

dbvars == <<inverter_messages, message_data, remote_messages>>

handlervars == <<datamessage, msg_id, todo>>

\* no function call is under way
NoCall == [fn |-> "none", arg |-> <<>>]

Init ==
    /\ inverter \in Schemas
    /\ sess = "dialing"
    /\ inbound_open = TRUE
    /\ upstream_open = FALSE
    /\ cancelled = FALSE
    /\ pc = [d \in Dirs |-> "idle"]
    /\ rdy = [d \in Dirs |-> Pending]
    /\ peer_closed = [d \in Dirs |-> FALSE]
    /\ delivered = [d \in Dirs |-> 0]
    /\ buf = [d \in Dirs |-> <<>>]
    /\ fwd = [d \in Dirs |-> <<>>]
    /\ woff = [d \in Dirs |-> 0]
    /\ bytes_forwarded = [d \in Dirs |-> 0]
    /\ result = [d \in Dirs |-> None]
    /\ reported = [d \in Dirs |-> None]
    /\ datamessage = NoMessage
    /\ msg_id = 0
    /\ todo = {}
    /\ inverter_messages = <<>>
    /\ message_data = <<>>
    /\ remote_messages = <<>>
    /\ errlog = <<>>
    /\ rlog = [d \in Dirs |-> <<>>]
    /\ out = [d \in Dirs |-> <<>>]
    /\ call = NoCall
    /\ ret = <<>>
    /\ ServerIdle
    /\ worker_threads = 1

\* Result<usize>: Ok(count) or Err
Ok(n) == [ok |-> TRUE, count |-> n]

Err == [ok |-> FALSE, count |-> 0]

\* the socket a direction reads from is open
ReadSideOpen(d) == IF d = "inv" THEN inbound_open ELSE upstream_open

\* ---- environment: the peers ----

\* the reader of direction d is not in the middle of an iteration; what arrives
\* during an iteration is seen by the program at its next select only
AtSelect(d) == pc[d] \in {"idle", "select"}

\* the peer of direction d makes a chunk available to the next read()
PeerSend(d, chunk) ==
    /\ ReadSideOpen(d)
    /\ ~peer_closed[d]
    /\ rdy[d] = Pending
    /\ AtSelect(d)
    /\ delivered["inv"] + delivered["rem"] < MaxReads
    /\ rdy' = [rdy EXCEPT ![d] = [k |-> "chunk", bytes |-> chunk]]
    /\ delivered' = [delivered EXCEPT ![d] = @ + 1]
    /\ UNCHANGED <<servervars, codecvars, inverter, sess, sockvars, cancelled, pc, peer_closed, buf, fwd,
                   woff, bytes_forwarded, result, reported, handlervars, dbvars,
                   errlog, rlog, out>>

\* the peer of direction d closes its sending side: read() will return 0
PeerClose(d) ==
    /\ ReadSideOpen(d)
    /\ ~peer_closed[d]
    /\ rdy[d] = Pending
    /\ AtSelect(d)
    /\ rdy' = [rdy EXCEPT ![d] = [k |-> "eof", bytes |-> <<>>]]
    /\ peer_closed' = [peer_closed EXCEPT ![d] = TRUE]
    /\ UNCHANGED <<servervars, codecvars, inverter, sess, sockvars, cancelled, pc, delivered, buf, fwd,
                   woff, bytes_forwarded, result, reported, handlervars, dbvars,
                   errlog, rlog, out>>

\* the connection of direction d breaks: read() will return an io::Error
PeerReset(d) ==
    /\ ReadSideOpen(d)
    /\ ~peer_closed[d]
    /\ rdy[d] = Pending
    /\ AtSelect(d)
    /\ rdy' = [rdy EXCEPT ![d] = [k |-> "err", bytes |-> <<>>]]
    /\ peer_closed' = [peer_closed EXCEPT ![d] = TRUE]
    /\ UNCHANGED <<servervars, codecvars, inverter, sess, sockvars, cancelled, pc, delivered, buf, fwd,
                   woff, bytes_forwarded, result, reported, handlervars, dbvars,
                   errlog, rlog, out>>

\* ---- handle_connection: dialing (server.rs:200-229) ----

\* TcpStream::connect succeeds; both copy loops are started by join!
DialOk ==
    /\ sess = "dialing"
    /\ sess' = "running"
    /\ upstream_open' = TRUE
    /\ pc' = [d \in Dirs |-> "select"]
    /\ UNCHANGED <<servervars, codecvars, inverter, inbound_open, cancelled, envvars, buf, fwd, woff,
                   bytes_forwarded, result, reported, handlervars, dbvars,
                   errlog, rlog, out>>

\* a failed connect that is logged and then ignored
DialFailMut ==
    /\ sess = "dialing"
    /\ sess' = "running"
    /\ pc' = [d \in Dirs |-> "select"]
    /\ errlog' = Append(errlog, [at |-> "dial", dir |-> "inv", chunk |-> 0])
    /\ UNCHANGED <<servervars, codecvars, inverter, sockvars, cancelled, envvars, buf, fwd, woff,
                   bytes_forwarded, result, reported, handlervars, dbvars,
                   rlog, out>>

\* TcpStream::connect fails: the `?` of server.rs:213 returns the error,
\* client_stream is dropped, run_server logs the error (server.rs:329-331)
DialFail ==
    /\ sess = "dialing"
    /\ sess' = "returned_err"
    /\ inbound_open' = FALSE
    /\ errlog' = Append(errlog, [at |-> "dial", dir |-> "inv", chunk |-> 0])
    /\ UNCHANGED <<servervars, codecvars, inverter, upstream_open, cancelled, pc, envvars, buf, fwd, woff,
                   bytes_forwarded, result, reported, handlervars, dbvars,
                   rlog, out>>

\* ---- copy_with_abort (server.rs:145-198) ----

\* the `then` closure without its c3.cancel()
TokenAfterExitMut(c) == c

\* the token after a copy loop has returned: the `then` closure of
\* server.rs:223-228 calls c3.cancel()
TokenAfterExit(c) == TRUE

\* copy_with_abort of direction d returns r; the token is cancelled in the
\* same poll
LoopExit(d, r) ==
    /\ pc' = [pc EXCEPT ![d] = "done"]
    /\ result' = [result EXCEPT ![d] = Some(r)]
    /\ cancelled' = TokenAfterExit(cancelled)

\* a panic inside a handler unwinds the session task: both loops are dropped
\* with handle_connection and both sockets are closed
PanicSession(d, at) ==
    /\ sess' = "panicked"
    /\ pc' = [e \in Dirs |-> "aborted"]
    /\ inbound_open' = FALSE
    /\ upstream_open' = FALSE
    /\ errlog' = Append(errlog, [at |-> at, dir |-> d, chunk |-> Len(rlog'[d])])

\* read() returns Err: `result?` leaves copy_with_abort (server.rs:165)
ReadErr(d) ==
    /\ sess = "running" /\ pc[d] = "select"
    /\ rdy[d].k = "err"
    /\ rdy' = [rdy EXCEPT ![d] = Pending]
    /\ LoopExit(d, Err)
    /\ UNCHANGED <<servervars, codecvars, inverter, sess, sockvars, peer_closed, delivered, buf, fwd, woff,
                   bytes_forwarded, reported, handlervars, dbvars, errlog,
                   rlog, out>>

\* read() returns 0: break 'proxy (server.rs:172-174)
ReadEof(d) ==
    /\ sess = "running" /\ pc[d] = "select"
    /\ rdy[d].k = "eof"
    /\ rdy' = [rdy EXCEPT ![d] = Pending]
    /\ LoopExit(d, Ok(bytes_forwarded[d]))
    /\ UNCHANGED <<servervars, codecvars, inverter, sess, sockvars, peer_closed, delivered, buf, fwd, woff,
                   bytes_forwarded, reported, handlervars, dbvars, errlog,
                   rlog, out>>

\* the select is biased: the cancellation branch is polled only when the
\* read is not ready (server.rs:161-170)
CancelBranchTaken(d) == rdy[d] = Pending /\ cancelled

\* abort.cancelled() completes: break 'proxy (server.rs:167-169)
CancelExit(d) ==
    /\ sess = "running" /\ pc[d] = "select"
    /\ CancelBranchTaken(d)
    /\ LoopExit(d, Ok(bytes_forwarded[d]))
    /\ UNCHANGED <<servervars, codecvars, inverter, sess, sockvars, envvars, buf, fwd, woff,
                   bytes_forwarded, reported, handlervars, dbvars, errlog,
                   rlog, out>>

\* a handler that returns the unscrambled copy
HandlerReturnMut(data, bytes) == bytes

\* what a handler returns for relay: Ok(data), the input slice
\* (server.rs:86,104,124,142)
HandlerReturn(data, bytes) == data

\* a remote loop that is not polled while the inverter loop is inside its
\* handler or its write
ReadRemoteMut ==
    /\ sess = "running" /\ pc["rem"] = "select"
    /\ rdy["rem"].k = "chunk"
    /\ pc["inv"] \in {"select", "done"}
    /\ LET data == rdy["rem"].bytes
           u == unscramble_data(data)
       IN  /\ rdy' = [rdy EXCEPT !["rem"] = Pending]
           /\ buf' = [buf EXCEPT !["rem"] = data]
           /\ rlog' = [rlog EXCEPT !["rem"] = Append(@, data)]
           /\ IF ~u.ok
              THEN /\ errlog' = Append(errlog, [at |-> "copy_loop", dir |-> "rem",
                                                chunk |-> Len(rlog'["rem"])])
                   /\ pc' = [pc EXCEPT !["rem"] = "select"]
              ELSE /\ pc' = [pc EXCEPT !["rem"] = "db_remote"]
                   /\ UNCHANGED errlog
    /\ fwd' = [fwd EXCEPT !["rem"] = <<>>]
    /\ woff' = [woff EXCEPT !["rem"] = 0]
    /\ UNCHANGED <<servervars, codecvars, inverter, sess, sockvars, cancelled, peer_closed, delivered,
                   bytes_forwarded, result, reported, handlervars, dbvars, out>>

\* read() returns a chunk on the remote side and handle_remote_data runs up to
\* the await of its insert (server.rs:108-120)
ReadRemote ==
    /\ sess = "running" /\ pc["rem"] = "select"
    /\ rdy["rem"].k = "chunk"
    /\ LET data == rdy["rem"].bytes
           u == unscramble_data(data)
       IN  /\ rdy' = [rdy EXCEPT !["rem"] = Pending]
           /\ buf' = [buf EXCEPT !["rem"] = data]
           /\ rlog' = [rlog EXCEPT !["rem"] = Append(@, data)]
           /\ IF ~u.ok
              THEN /\ errlog' = Append(errlog, [at |-> "copy_loop", dir |-> "rem",
                                                chunk |-> Len(rlog'["rem"])])
                   /\ pc' = [pc EXCEPT !["rem"] = "select"]
              ELSE /\ pc' = [pc EXCEPT !["rem"] = "db_remote"]
                   /\ UNCHANGED errlog
    /\ fwd' = [fwd EXCEPT !["rem"] = <<>>]
    /\ woff' = [woff EXCEPT !["rem"] = 0]
    /\ UNCHANGED <<servervars, codecvars, inverter, sess, sockvars, cancelled, peer_closed, delivered,
                   bytes_forwarded, result, reported, handlervars, dbvars, out>>

\* a decoder that takes the fragments out of the list as it reads them
SchemaAfterDecodeMut(frags) == <<>>

\* the fragment list after a decode: data4 gets a clone of the Arc and walks
\* it with iter(), by shared reference (server.rs:66, data_message.rs:74)
SchemaAfterDecode(frags) == frags

\* read() returns a chunk on the inverter side and handle_inverter_data runs
\* up to the await of the inverter_messages insert (server.rs:45-82); the
\* decoder reads the clock, which returns any of its readings
ReadInverter ==
    /\ sess = "running" /\ pc["inv"] = "select"
    /\ rdy["inv"].k = "chunk"
    /\ LET data == rdy["inv"].bytes
       IN  \E u \in {unscramble_data(data)} :
           /\ rdy' = [rdy EXCEPT !["inv"] = Pending]
           /\ buf' = [buf EXCEPT !["inv"] = data]
           /\ rlog' = [rlog EXCEPT !["inv"] = Append(@, data)]
           /\ fwd' = [fwd EXCEPT !["inv"] = <<>>]
           /\ woff' = [woff EXCEPT !["inv"] = 0]
           /\ IF ~u.ok
              THEN /\ errlog' = Append(errlog, [at |-> "copy_loop", dir |-> "inv",
                                                chunk |-> Len(rlog'["inv"])])
                   /\ pc' = [pc EXCEPT !["inv"] = "select"]
                   /\ UNCHANGED <<sess, sockvars, datamessage>>
              ELSE \E overflow_checks \in BOOLEAN : \E time \in Times :
                     \E r \in {Decode(inverter, u.val, overflow_checks, time)} :
                         CASE r.kind = "ok" ->
                                /\ datamessage' = r.msg
                                /\ pc' = [pc EXCEPT !["inv"] = "db_header"]
                                /\ UNCHANGED <<sess, sockvars, errlog>>
                           [] r.kind = "panic" ->
                                /\ PanicSession("inv", "panic_decode")
                                /\ UNCHANGED datamessage
                           [] OTHER ->
                                /\ sess' = "hung"
                                /\ UNCHANGED <<pc, sockvars, errlog, datamessage>>
    /\ inverter' = SchemaAfterDecode(inverter)
    /\ UNCHANGED <<servervars, codecvars, cancelled, peer_closed, delivered, bytes_forwarded,
                   result, reported, msg_id, todo, dbvars, out>>

\* ---- handle_inverter_data after its first await (server.rs:84-105) ----

\* serde_json::to_string(&datamessage.data_type) (server.rs:79): the name of
\* the unit variant as a JSON string, its quotation marks included
JsonTypeTag(data_type) == "\"" \o data_type \o "\""

\* a row that binds no serial number
HeaderRowMut(dm, id, n) ==
    [id |-> id, raw |-> dm.raw, type |-> JsonTypeTag(dm.data_type),
     header |-> dm.header, inverter_sn |-> None, chunk |-> n]

\* the row of the INSERT INTO inverter_messages (server.rs:78-79); chunk is
\* the number of the read whose chunk the row was decoded from
HeaderRow(dm, id, n) ==
    [id |-> id, raw |-> dm.raw, type |-> JsonTypeTag(dm.data_type),
     header |-> dm.header, inverter_sn |-> dm.serial_number, chunk |-> n]

\* the field loop left out of the awaited path
PcAfterHeaderMut(fields) == "write"

\* where handle_inverter_data goes once the header row is stored: into the
\* loop over datamessage.data, or past it when there is no field
PcAfterHeader(fields) == IF fields = {} THEN "write" ELSE "db_field"

\* the inverter_messages insert returns a row id
DbHeaderOk ==
    /\ sess = "running" /\ pc["inv"] = "db_header"
    /\ LET id == Len(inverter_messages) + 1
       IN  /\ inverter_messages' =
                Append(inverter_messages,
                       HeaderRow(datamessage, id, Len(rlog["inv"])))
           /\ msg_id' = id
    /\ todo' = DOMAIN datamessage.data
    /\ pc' = [pc EXCEPT !["inv"] = PcAfterHeader(todo')]
    /\ fwd' = [fwd EXCEPT !["inv"] =
                 IF pc'["inv"] = "write"
                 THEN HandlerReturn(buf["inv"], unscramble_data(buf["inv"]).val)
                 ELSE @]
    /\ UNCHANGED <<servervars, codecvars, inverter, sess, sockvars, cancelled, envvars, buf, woff,
                   bytes_forwarded, result, reported, datamessage, message_data,
                   remote_messages, errlog, rlog, out>>

\* a header failure that is passed on as Err to the copy loop
DbHeaderFailMut ==
    /\ sess = "running" /\ pc["inv"] = "db_header"
    /\ errlog' = Append(errlog, [at |-> "inverter_messages", dir |-> "inv",
                                 chunk |-> Len(rlog["inv"])])
    /\ pc' = [pc EXCEPT !["inv"] = "select"]
    /\ UNCHANGED <<servervars, codecvars, inverter, sess, sockvars, cancelled, envvars, buf, fwd, woff,
                   bytes_forwarded, result, reported, handlervars, dbvars,
                   rlog, out>>

\* the inverter_messages insert fails: error! and return Ok(data)
\* (server.rs:84-87)
DbHeaderFail ==
    /\ sess = "running" /\ pc["inv"] = "db_header"
    /\ errlog' = Append(errlog, [at |-> "inverter_messages", dir |-> "inv",
                                 chunk |-> Len(rlog["inv"])])
    /\ pc' = [pc EXCEPT !["inv"] = "write"]
    /\ fwd' = [fwd EXCEPT !["inv"] =
                 HandlerReturn(buf["inv"], unscramble_data(buf["inv"]).val)]
    /\ UNCHANGED <<servervars, codecvars, inverter, sess, sockvars, cancelled, envvars, buf, woff,
                   bytes_forwarded, result, reported, handlervars, dbvars,
                   rlog, out>>

\* a row that binds the number of the chunk in place of the returned id
FieldRowMut(id, key, value, n) ==
    [message_id |-> n, key |-> key, value |-> value, chunk |-> n]

\* the row of the INSERT INTO message_data (server.rs:93-98): `id` is
\* r.unwrap().id of the header insert (server.rs:89); chunk is the number of
\* the read whose chunk the row was decoded from
FieldRow(id, key, value, n) ==
    [message_id |-> id, key |-> key, value |-> value, chunk |-> n]

\* one message_data insert succeeds; the HashMap is iterated in an arbitrary
\* order, key is the entry the iterator yields (server.rs:92-102)
DbFieldOk(key) ==
    /\ sess = "running" /\ pc["inv"] = "db_field"
    /\ key \in todo
    /\ message_data' = Append(message_data,
                              FieldRow(msg_id, key, datamessage.data[key],
                                       Len(rlog["inv"])))
    /\ todo' = todo \ {key}
    /\ pc' = [pc EXCEPT !["inv"] = IF todo' = {} THEN "write" ELSE "db_field"]
    /\ fwd' = [fwd EXCEPT !["inv"] =
                 IF todo' = {}
                 THEN HandlerReturn(buf["inv"], unscramble_data(buf["inv"]).val)
                 ELSE @]
    /\ UNCHANGED <<servervars, codecvars, inverter, sess, sockvars, cancelled, envvars, buf, woff,
                   bytes_forwarded, result, reported, datamessage, msg_id,
                   inverter_messages, remote_messages, errlog, rlog, out>>

\* one message_data insert fails: the unwrap of server.rs:101 panics
DbFieldFail(key) ==
    /\ sess = "running" /\ pc["inv"] = "db_field"
    /\ key \in todo
    /\ UNCHANGED rlog
    /\ PanicSession("inv", "panic_message_data")
    /\ UNCHANGED <<servervars, codecvars, inverter, cancelled, envvars, buf, fwd, woff, bytes_forwarded,
                   result, reported, handlervars, dbvars, out>>

\* ---- handle_remote_data after its await (server.rs:122-143) ----

\* the remote_messages insert returns a row id
DbRemoteOk ==
    /\ sess = "running" /\ pc["rem"] = "db_remote"
    /\ remote_messages' =
         Append(remote_messages,
                [id |-> Len(remote_messages) + 1,
                 raw |-> unscramble_data(buf["rem"]).val,
                 chunk |-> Len(rlog["rem"])])
    /\ pc' = [pc EXCEPT !["rem"] = "write"]
    /\ fwd' = [fwd EXCEPT !["rem"] =
                 HandlerReturn(buf["rem"], unscramble_data(buf["rem"]).val)]
    /\ UNCHANGED <<servervars, codecvars, inverter, sess, sockvars, cancelled, envvars, buf, woff,
                   bytes_forwarded, result, reported, handlervars,
                   inverter_messages, message_data, errlog, rlog, out>>

\* the remote_messages insert fails: error! and return Ok(data)
\* (server.rs:122-125)
DbRemoteFail ==
    /\ sess = "running" /\ pc["rem"] = "db_remote"
    /\ errlog' = Append(errlog, [at |-> "remote_messages", dir |-> "rem",
                                 chunk |-> Len(rlog["rem"])])
    /\ pc' = [pc EXCEPT !["rem"] = "write"]
    /\ fwd' = [fwd EXCEPT !["rem"] =
                 HandlerReturn(buf["rem"], unscramble_data(buf["rem"]).val)]
    /\ UNCHANGED <<servervars, codecvars, inverter, sess, sockvars, cancelled, envvars, buf, woff,
                   bytes_forwarded, result, reported, handlervars, dbvars,
                   rlog, out>>

\* ---- write_all and the end of an iteration (server.rs:193-194) ----

\* write in place of write_all: done after the first partial write
WriteAllDoneMut(len, off) == off > 0

\* write_all returns once the whole of bytes_to_forward has been written
WriteAllDone(len, off) == off = len

\* a counter of the chunks written
CountAfterWriteMut(count, bytes_read) == count + 1

\* bytes_forwarded += bytes_read, after write_all has returned Ok
\* (server.rs:193-194)
CountAfterWrite(count, bytes_read) == count + bytes_read

\* the sizes of the next partial write: one unit, or all that is left
WriteSizes(d) ==
    LET left == Len(fwd[d]) - woff[d]
    IN  IF left = 0 THEN {0} ELSE {Min(WriteUnit, left), left}

\* the writer accepts the next n bytes of bytes_to_forward; when write_all is
\* done the counter grows by bytes_read and the loop selects again
WriteSome(d, n) ==
    /\ sess = "running" /\ pc[d] = "write"
    /\ n \in WriteSizes(d)
    /\ out' = [out EXCEPT ![d] = @ \o SubSeq(fwd[d], woff[d] + 1, woff[d] + n)]
    /\ IF WriteAllDone(Len(fwd[d]), woff[d] + n)
       THEN /\ woff' = [woff EXCEPT ![d] = 0]
            /\ bytes_forwarded' = [bytes_forwarded EXCEPT ![d] =
                                     CountAfterWrite(@, Len(buf[d]))]
            /\ pc' = [pc EXCEPT ![d] = "select"]
       ELSE /\ woff' = [woff EXCEPT ![d] = @ + n]
            /\ UNCHANGED <<bytes_forwarded, pc>>
    /\ UNCHANGED <<servervars, codecvars, inverter, sess, sockvars, cancelled, envvars, buf, fwd, result,
                   reported, handlervars, dbvars, errlog, rlog>>

\* write_all returns Err: the `?` of server.rs:193 leaves copy_with_abort
WriteErr(d) ==
    /\ sess = "running" /\ pc[d] = "write"
    /\ LoopExit(d, Err)
    /\ UNCHANGED <<servervars, codecvars, inverter, sess, sockvars, envvars, buf, fwd, woff,
                   bytes_forwarded, reported, handlervars, dbvars, errlog,
                   rlog, out>>

\* ---- handle_connection after join! (server.rs:231-266) ----

\* a join whose results are passed on with `?`
SessAfterJoinMut(client_copied, remote_copied) ==
    IF client_copied.ok /\ remote_copied.ok THEN "returned_ok" ELSE "returned_err"

\* what handle_connection returns after the two matches on the results of
\* the loops: Ok(()) in every case (server.rs:233-265)
SessAfterJoin(client_copied, remote_copied) == "returned_ok"

\* a return that leaves the upstream stream open
JoinMut ==
    /\ sess = "running"
    /\ \A d \in Dirs : pc[d] = "done"
    /\ reported' = [d \in Dirs |-> IF result[d][1].ok
                                   THEN Some(result[d][1].count) ELSE None]
    /\ errlog' = errlog
                 \o (IF result["inv"][1].ok THEN <<>>
                     ELSE <<[at |-> "join", dir |-> "inv", chunk |-> 0]>>)
                 \o (IF result["rem"][1].ok THEN <<>>
                     ELSE <<[at |-> "join", dir |-> "rem", chunk |-> 0]>>)
    /\ sess' = SessAfterJoin(result["inv"][1], result["rem"][1])
    /\ inbound_open' = FALSE
    /\ upstream_open' = upstream_open
    /\ UNCHANGED <<servervars, codecvars, inverter, cancelled, pc, envvars, buf, fwd, woff,
                   bytes_forwarded, result, handlervars, dbvars, rlog, out>>

\* both loops have returned: the count of every Ok result is logged, an Err
\* result is logged as an error, handle_connection returns Ok(()) and both
\* streams are dropped
Join ==
    /\ sess = "running"
    /\ \A d \in Dirs : pc[d] = "done"
    /\ reported' = [d \in Dirs |-> IF result[d][1].ok
                                   THEN Some(result[d][1].count) ELSE None]
    /\ errlog' = errlog
                 \o (IF result["inv"][1].ok THEN <<>>
                     ELSE <<[at |-> "join", dir |-> "inv", chunk |-> 0]>>)
                 \o (IF result["rem"][1].ok THEN <<>>
                     ELSE <<[at |-> "join", dir |-> "rem", chunk |-> 0]>>)
    /\ sess' = SessAfterJoin(result["inv"][1], result["rem"][1])
    /\ inbound_open' = FALSE
    /\ upstream_open' = FALSE
    /\ UNCHANGED <<servervars, codecvars, inverter, cancelled, pc, envvars, buf, fwd, woff,
                   bytes_forwarded, result, handlervars, dbvars, rlog, out>>

Next ==
    \/ \E d \in Dirs : \E chunk \in ChunksOf(d) : PeerSend(d, chunk)
    \/ \E d \in Dirs : PeerClose(d)
    \/ \E d \in Dirs : PeerReset(d)
    \/ DialOk
    \/ DialFail
    \/ \E d \in Dirs : ReadErr(d)
    \/ \E d \in Dirs : ReadEof(d)
    \/ \E d \in Dirs : CancelExit(d)
    \/ ReadRemote
    \/ ReadInverter
    \/ DbHeaderOk
    \/ DbHeaderFail
    \/ \E key \in todo : DbFieldOk(key)
    \/ \E key \in todo : DbFieldFail(key)
    \/ DbRemoteOk
    \/ DbRemoteFail
    \/ \E d \in Dirs : \E n \in WriteSizes(d) : WriteSome(d, n)
    \/ \E d \in Dirs : WriteErr(d)
    \/ Join

Spec == Init /\ [][Next]_vars

\* ------------------------------------------------------------------------
\* Vocabulary of the properties
\* ------------------------------------------------------------------------

Last(q) == q[Len(q)]

Front(q) == SubSeq(q, 1, Len(q) - 1)

IsPrefix(p, q) == Len(p) <= Len(q) /\ SubSeq(q, 1, Len(p)) = p

IsSuffix(p, q) == Len(p) <= Len(q) /\ SubSeq(q, Len(q) - Len(p) + 1, Len(q)) = p

RECURSIVE Concat(_)
\* the byte stream made of the chunks of q, in order
Concat(q) == IF q = <<>> THEN <<>> ELSE Head(q) \o Concat(Tail(q))

RECURSIVE MadeOfChunks(_, _)
\* o is made of whole chunks taken from r, in any order, possibly followed
\* by the beginning of one more
MadeOfChunks(o, r) ==
    \/ o = <<>>
    \/ \E i \in 1..Len(r) :
         \/ IsPrefix(o, r[i])
         \/ /\ IsPrefix(r[i], o)
            /\ MadeOfChunks(SubSeq(o, Len(r[i]) + 1, Len(o)), r)

RECURSIVE Whole(_, _)
\* o is the concatenation of some of the chunks of r, each whole, in the
\* order of r
Whole(o, r) ==
    IF r = <<>> THEN o = <<>>
    ELSE \/ Whole(o, Tail(r))
         \/ /\ IsPrefix(Head(r), o)
            /\ Whole(SubSeq(o, Len(Head(r)) + 1, Len(o)), Tail(r))

\* o is whole chunks of r in the order of r, the last chunk of r possibly
\* written in part
InOrder(o, r) ==
    \/ Whole(o, r)
    \/ /\ r # <<>>
       /\ \E k \in 1..Min(Len(o), Len(Last(r))) :
            /\ SubSeq(o, Len(o) - k + 1, Len(o)) = SubSeq(Last(r), 1, k)
            /\ Whole(SubSeq(o, 1, Len(o) - k), Front(r))

\* an error record of the given place exists for chunk n of direction d
Logged(at, d, n) ==
    \E i \in 1..Len(errlog) :
        errlog[i].at = at /\ errlog[i].dir = d /\ errlog[i].chunk = n

\* for every schema and every chunk of the inverter side that unscrambles,
\* the message the dispatch decodes from it, without its time, the one
\* component that the reading of the clock decides
DecodedMessages ==
    [s \in Schemas |->
       [c \in {c \in InvChunks : unscramble_data(c).ok} |->
          LET m == Decode(s, unscramble_data(c).val, TRUE,
                          CHOOSE time \in Times : TRUE).msg
          IN  [f \in DOMAIN m \ {"time"} |-> m[f]]]]

\* the message handle_inverter_data decodes from chunk n (when it decodes)
MessageOf(n) == DecodedMessages[inverter][rlog["inv"][n]]

\* every insert the handler makes for the chunk in hand has come back
PersistenceSettled(d) ==
    LET n == Len(rlog[d])
    IN  IF d = "rem"
        THEN \/ Logged("remote_messages", "rem", n)
             \/ \E i \in 1..Len(remote_messages) : remote_messages[i].chunk = n
        ELSE \/ Logged("inverter_messages", "inv", n)
             \/ /\ \E i \in 1..Len(inverter_messages) :
                       inverter_messages[i].chunk = n
                /\ \A key \in DOMAIN MessageOf(n).data :
                     \E j \in 1..Len(message_data) :
                         /\ message_data[j].chunk = n
                         /\ message_data[j].key = key

\* ------------------------------------------------------------------------
\* Properties
\* ------------------------------------------------------------------------

\* C1: every chunk a read returns is written to the opposite peer, byte for
\* byte, whatever its handling yields: each time a copy loop is back at its
\* select, the bytes written are exactly the chunks read so far.
C1_EveryChunkWritten ==
    \A d \in Dirs : pc[d] = "select" => out[d] = Concat(rlog[d])

\* C2: a chunk shorter than 8 bytes is reported as a short frame, is still
\* written to the opposite peer, and the loop goes on to its next read.
C2_ShortChunkWritten ==
    \A d \in Dirs :
        (rlog[d] # <<>> /\ Len(Last(rlog[d])) < 8)
        => /\ Logged("copy_loop", d, Len(rlog[d]))
           /\ pc[d] \in {"select", "done", "aborted"}
           /\ IsSuffix(Last(rlog[d]), out[d])

\* C3: what a session writes to a peer is made of chunks it read from the
\* opposite peer: the slice handed to write_all is the chunk just read, not
\* its unscrambled copy, and nothing else is ever written.
C3_WritesAreChunksRead ==
    \A d \in Dirs :
        /\ pc[d] = "write" => (fwd[d] = buf[d] /\ buf[d] = Last(rlog[d]))
        /\ MadeOfChunks(out[d], rlog[d])

\* C3 witness: a frame whose unscrambled form differs from it has been
\* relayed in full
C3_Witness ==
    \E d \in Dirs :
        /\ pc[d] = "select" /\ rlog[d] # <<>>
        /\ out[d] = Last(rlog[d])
        /\ Len(out[d]) >= 8
        /\ unscramble_data(out[d]).val # out[d]

\* C4: within a direction the chunks are written in the order they were
\* read, and no chunk is read (nor any byte of it written) before the write
\* of the preceding chunk is complete.
C4_FifoPerDirection ==
    [][\A d \in Dirs :
          /\ out'[d] # out[d] => InOrder(out'[d], rlog'[d])
          /\ rlog'[d] # rlog[d] => Whole(out[d], rlog[d])]_vars

\* C4 witness: of two different chunks read in one direction the first has
\* been written in full and the second is written in part
C4_Witness ==
    \E d \in Dirs :
        /\ Len(rlog[d]) = 2
        /\ rlog[d][1] # rlog[d][2]
        /\ pc[d] = "write"
        /\ woff[d] > 0 /\ woff[d] < Len(fwd[d])
        /\ out[d] = rlog[d][1] \o SubSeq(rlog[d][2], 1, woff[d])

\* C5: when the first (or any) byte of a chunk is written, every insert made
\* for that chunk has already succeeded or failed: the header insert and
\* each field insert on the inverter side, the remote_messages insert on
\* the remote side.
C5_PersistBeforeForward ==
    [][\A d \in Dirs : out'[d] # out[d] => PersistenceSettled(d)]_vars

\* C5 witness: a Data4 chunk with two stored fields is being written
C5_Witness ==
    /\ pc["inv"] = "write" /\ woff["inv"] > 0
    /\ Len(message_data) = 2
    /\ message_data[1].chunk = Len(rlog["inv"])
    /\ message_data[2].chunk = Len(rlog["inv"])

\* C6 (as claimed): a loop that ends by EOF or by an I/O error sets the
\* token, and from then on the other loop leaves at its next select without
\* reading another chunk.
C6_NoReadAfterCancel ==
    [][\A d \in Dirs :
          /\ (pc[d] # "done" /\ pc'[d] = "done") => cancelled'
          /\ (cancelled /\ pc[d] = "select") => rlog'[d] = rlog[d]]_vars

\* C6 (amended): a loop that ends by EOF or by an I/O error sets the token;
\* the other loop leaves through the cancellation branch at the first select
\* at which its read is not ready, returning its count without reading or
\* writing anything more, and a read that is ready at a select is taken
\* first even though the token is set.
C6_ExitWhenReadNotReady ==
    [][\A d \in Dirs :
          /\ (pc[d] # "done" /\ pc'[d] = "done") => cancelled'
          /\ (cancelled /\ pc[d] = "select" /\ rdy[d] = Pending
              /\ pc'[d] # "select")
             => /\ pc'[d] = "done"
                /\ result'[d] = Some(Ok(bytes_forwarded[d]))
                /\ rlog'[d] = rlog[d]
                /\ out'[d] = out[d]
          /\ (cancelled /\ pc[d] = "select" /\ rdy[d].k = "chunk"
              /\ (pc'[d] # pc[d] \/ rdy'[d] # rdy[d]))
             => rlog'[d] = Append(rlog[d], rdy[d].bytes)]_vars

\* C6 witness: one loop has ended by EOF and the other, whose peer is still
\* sending, has left through the cancellation branch
C6_Witness ==
    \E d, e \in Dirs :
        /\ d # e
        /\ pc[d] = "done" /\ peer_closed[d] /\ result[d] = Some(Ok(bytes_forwarded[d]))
        /\ pc[e] = "done" /\ ~peer_closed[e] /\ result[e][1].ok
        /\ cancelled

\* a loop has read EOF and returned its count
EofSeen ==
    \E d \in Dirs :
        /\ pc[d] \in {"done", "aborted"}
        /\ peer_closed[d] /\ rdy[d] = Pending
        /\ result[d] # None /\ result[d][1].ok

\* C7: once a direction has reached EOF, and no socket operation fails, the
\* session ends by handle_connection returning after the join, with a byte
\* count reported for both directions: a session that has stopped after an
\* EOF has stopped that way.
C7_ClosesCleanlyAfterEof ==
    (/\ EofSeen
     /\ sess # "running"
     /\ \A d \in Dirs : result[d] = None \/ result[d][1].ok)
    => /\ sess = "returned_ok"
       /\ \A d \in Dirs : reported[d] # None

\* connect has failed
DialFailed == \E i \in 1..Len(errlog) : errlog[i].at = "dial"

\* C8: after a failed dial handle_connection has returned its error with no
\* copy loop started, nothing read from or written to the inbound
\* connection, no row inserted, and the inbound connection closed.
C8_DialFailureAbortsSession ==
    DialFailed
    => /\ sess = "returned_err"
       /\ \A d \in Dirs : pc[d] = "idle" /\ rlog[d] = <<>> /\ out[d] = <<>>
       /\ inverter_messages = <<>> /\ message_data = <<>>
       /\ remote_messages = <<>>
       /\ ~inbound_open

\* C8 witness: the dial has failed while a chunk of the inverter was waiting
\* to be read
C8_Witness == DialFailed /\ rdy["inv"].k = "chunk"

\* C9: when the header insert fails for a chunk no message_data row is
\* inserted for it, the handler hands the unchanged chunk to write_all with
\* the session still running, and once the loop is back at its select the
\* chunk has been written to upstream; the rows of later chunks are not
\* affected.
C9_HeaderFailureStillForwards ==
    /\ [](\A n \in 1..Len(rlog["inv"]) :
            Logged("inverter_messages", "inv", n)
            => /\ \A j \in 1..Len(message_data) : message_data[j].chunk # n
               /\ \A j \in 1..Len(inverter_messages) :
                      inverter_messages[j].chunk # n
               /\ (pc["inv"] = "select" /\ n = Len(rlog["inv"]))
                  => IsSuffix(rlog["inv"][n], out["inv"]))
    /\ [][(errlog' # errlog /\ Last(errlog').at = "inverter_messages")
          => /\ pc'["inv"] = "write"
             /\ fwd'["inv"] = Last(rlog["inv"])
             /\ sess' = "running"
             /\ pc'["rem"] = pc["rem"]]_vars

\* C9 witness: the header insert failed for the first chunk, and the second
\* chunk, a Data4 frame, has been stored with its fields and both chunks
\* have been written
C9_Witness ==
    /\ Logged("inverter_messages", "inv", 1)
    /\ Len(rlog["inv"]) = 2
    /\ \E i \in 1..Len(inverter_messages) : inverter_messages[i].chunk = 2
    /\ \E j \in 1..Len(message_data) : message_data[j].chunk = 2
    /\ out["inv"] = rlog["inv"][1] \o rlog["inv"][2]

\* C10: a failed message_data insert stays with its row: the session is not
\* torn down, both copy loops keep running and the chunk is still written.
C10_FieldFailureConfined ==
    \A i \in 1..Len(errlog) :
        errlog[i].at = "panic_message_data"
        => /\ sess # "panicked"
           /\ \A d \in Dirs : pc[d] # "aborted"

\* the decode of chunk n of the inverter side fails in every build
DecodeFails(n) ==
    LET u == unscramble_data(rlog["inv"][n])
    IN  /\ u.ok
        /\ \A overflow_checks \in BOOLEAN : \A time \in Times :
             Decode(inverter, u.val, overflow_checks, time).kind # "ok"

\* C11: a chunk whose decoding fails does not abort the session: the session
\* task is not torn down and no copy loop is aborted with it.
C11_DecodeFailureIsolated ==
    \A n \in 1..Len(rlog["inv"]) :
        DecodeFails(n)
        => /\ sess \in {"running", "returned_ok"}
           /\ \A d \in Dirs : pc[d] # "aborted"

\* the inverter_messages rows decoded from chunk n
HeaderRows(n) ==
    {i \in 1..Len(inverter_messages) : inverter_messages[i].chunk = n}

\* the failed inverter_messages inserts of chunk n
HeaderFailures(n) ==
    {i \in 1..Len(errlog) : /\ errlog[i].at = "inverter_messages"
                            /\ errlog[i].dir = "inv"
                            /\ errlog[i].chunk = n}

\* the inverter_messages insert of chunk n has come back
HeaderDone(n) ==
    \/ n < Len(rlog["inv"])
    \/ n = Len(rlog["inv"]) /\ pc["inv"] \in {"db_field", "write"}

\* the type column of a frame with type byte t
TagOfTypeByte(t) ==
    CASE t = 3 -> "\"Data3\""
      [] t = 4 -> "\"Data4\""
      [] t = 22 -> "\"Ping\""
      [] t = 24 -> "\"Configure\""
      [] t = 25 -> "\"Identify\""
      [] OTHER -> "\"Unknown\""

\* C14: for every chunk of at least 8 bytes read from the inverter there is
\* at most one inverter_messages insert, stored or failed; once the insert
\* has come back without failure there is exactly one row of the chunk, and a
\* row carries the type of the frame, its 8-byte header and the serial number
\* of the decoded message.
C14_OneHeaderRowPerChunk ==
    \A n \in 1..Len(rlog["inv"]) :
        Len(rlog["inv"][n]) >= 8
        => /\ Cardinality(HeaderRows(n)) + Cardinality(HeaderFailures(n)) <= 1
           /\ (HeaderDone(n) /\ HeaderFailures(n) = {})
              => Cardinality(HeaderRows(n)) = 1
           /\ \A i \in HeaderRows(n) :
                /\ inverter_messages[i].type = TagOfTypeByte(rlog["inv"][n][8])
                /\ inverter_messages[i].header = SubSeq(rlog["inv"][n], 1, 8)
                /\ inverter_messages[i].inverter_sn = MessageOf(n).serial_number

\* C14 witness: the row of a Data4 frame is stored with the serial number "A"
\* and the fields are being stored
C14_Witness ==
    /\ pc["inv"] = "db_field"
    /\ Last(rlog["inv"]) = Data4Chunk
    /\ \E i \in HeaderRows(Len(rlog["inv"])) :
         /\ inverter_messages[i].inverter_sn = Some(<<65>>)
         /\ inverter_messages[i].type = "\"Data4\""
         /\ inverter_messages[i].header = <<0, 1, 0, 6, 0, 2, 1, 4>>

\* the remote_messages rows of chunk n
RemoteRows(n) ==
    {i \in 1..Len(remote_messages) : remote_messages[i].chunk = n}

\* the failed remote_messages inserts of chunk n
RemoteFailures(n) ==
    {i \in 1..Len(errlog) : /\ errlog[i].at = "remote_messages"
                            /\ errlog[i].dir = "rem"
                            /\ errlog[i].chunk = n}

\* C15: when the remote-to-inverter loop is back at its select, every chunk
\* it has read has had exactly one remote_messages insert, stored or failed,
\* a stored row holds the unscrambled bytes of the chunk, and every chunk has
\* been written to the inverter.
C15_RemoteChunkStoredAndForwarded ==
    (sess = "running" /\ pc["rem"] = "select")
    => /\ \A n \in 1..Len(rlog["rem"]) :
            /\ Cardinality(RemoteRows(n)) + Cardinality(RemoteFailures(n)) = 1
            /\ \A i \in RemoteRows(n) :
                 /\ unscramble_data(rlog["rem"][n]).ok
                 /\ remote_messages[i].raw = unscramble_data(rlog["rem"][n]).val
       /\ out["rem"] = Concat(rlog["rem"])

\* C16: a chunk of at least 8 bytes whose type byte is not 0x04 is decoded
\* as a placeholder (the unscrambled bytes, their first 8 bytes as header,
\* no field, no serial number); it gets no message_data row and at most one
\* inverter_messages row, exactly one once the insert has come back without
\* failure, and the row has the type of the type byte (Ping for 0x16), the
\* header and no serial number.
C16_PlaceholderForOtherTypes ==
    \A n \in 1..Len(rlog["inv"]) :
        LET chunk == rlog["inv"][n]
        IN  (Len(chunk) >= 8 /\ chunk[8] # 4)
            => /\ (n = Len(rlog["inv"]) /\ pc["inv"] \in {"db_header", "write"})
                  => /\ datamessage.raw = unscramble_data(chunk).val
                     /\ datamessage.header = SubSeq(chunk, 1, 8)
                     /\ datamessage.data = <<>>
                     /\ datamessage.serial_number = None
               /\ n = Len(rlog["inv"]) => pc["inv"] # "db_field"
               /\ \A j \in 1..Len(message_data) : message_data[j].chunk # n
               /\ Cardinality(HeaderRows(n)) <= 1
               /\ (HeaderDone(n) /\ HeaderFailures(n) = {})
                  => Cardinality(HeaderRows(n)) = 1
               /\ \A i \in HeaderRows(n) :
                    /\ inverter_messages[i].type = TagOfTypeByte(chunk[8])
                    /\ chunk[8] = 22 => inverter_messages[i].type = "\"Ping\""
                    /\ inverter_messages[i].raw = unscramble_data(chunk).val
                    /\ inverter_messages[i].header = SubSeq(chunk, 1, 8)
                    /\ inverter_messages[i].inverter_sn = None

\* C16 witness: two Ping frames have been read and written, each has its
\* row, and no field is stored
C16_Witness ==
    /\ rlog["inv"] = <<PingChunk, PingChunk>>
    /\ out["inv"] = PingChunk \o PingChunk
    /\ Len(inverter_messages) = 2
    /\ inverter_messages[1].type = "\"Ping\""
    /\ inverter_messages[2].type = "\"Ping\""
    /\ inverter_messages[2].inverter_sn = None
    /\ message_data = <<>>

\* the session task has ended
Terminated == sess \in {"returned_ok", "returned_err", "panicked"}

\* C25: a session that has ended, by return or by panic, has neither its
\* inbound nor its upstream connection open.
C25_SocketsClosedAtExit ==
    Terminated => ~inbound_open /\ ~upstream_open

\* C25 witness: a session whose upstream connection was open and carried a
\* chunk has returned after a copy loop ended with an I/O error
C25_Witness ==
    /\ sess = "returned_ok"
    /\ \E d \in Dirs : ~result[d][1].ok
    /\ out["inv"] # <<>>
    /\ ~inbound_open
    /\ ~upstream_open

\* the copy loop of direction d is inside an insert or a write
Suspended(d) ==
    sess = "running" /\ pc[d] \in {"db_header", "db_field", "db_remote", "write"}

\* C26: while the copy loop of one direction is inside an insert or a
\* write, the loop of the other direction can take its next step: read the
\* chunk that is ready, whatever it decodes to, get its insert back, write.
C26_DirectionsIndependent ==
    /\ Suspended("inv")
       => /\ (pc["rem"] = "select" /\ rdy["rem"].k = "chunk") => ENABLED ReadRemote
          /\ pc["rem"] = "db_remote" => ENABLED DbRemoteOk
          /\ pc["rem"] = "write"
             => ENABLED (\E n \in WriteSizes("rem") : WriteSome("rem", n))
    /\ Suspended("rem")
       => /\ (pc["inv"] = "select" /\ rdy["inv"].k = "chunk") => ENABLED ReadInverter
          /\ pc["inv"] = "db_header" => ENABLED DbHeaderOk
          /\ pc["inv"] = "db_field" => ENABLED (\E key \in todo : DbFieldOk(key))
          /\ pc["inv"] = "write"
             => ENABLED (\E n \in WriteSizes("inv") : WriteSome("inv", n))

\* C26 witness: the remote loop is in the middle of a write, part of its
\* chunk written and part not; the inverter loop, which has stored and
\* forwarded a Data4 frame with its fields, has a second complete Data4
\* frame ready and can read it
C26_Witness ==
    /\ sess = "running"
    /\ pc["rem"] = "write"
    /\ 0 < woff["rem"] /\ woff["rem"] < Len(fwd["rem"])
    /\ pc["inv"] = "select"
    /\ rdy["inv"].k = "chunk"
    /\ rdy["inv"].bytes = Data4Chunk
    /\ out["inv"] = Data4Chunk
    /\ message_data # <<>>
    /\ ENABLED ReadInverter

\* C30: no step of a session changes the field schema.
C30_SchemaNeverModified == [][inverter' = inverter]_vars

\* C30 witness: a Data4 frame has been decoded against the schema and stored
\* with its fields, the session has returned, and the schema is the one that
\* was loaded
C30_Witness ==
    /\ sess = "returned_ok"
    /\ message_data # <<>>
    /\ inverter \in Schemas
    /\ Len(inverter) = 2

\* ------------------------------------------------------------------------
\* The codec and the decoders called on their own (utils.rs, data_message.rs,
\* message_type.rs; the calls of decrypt's run_decrypt and of the tests)
\* ------------------------------------------------------------------------

\* longest frame body of the inputs
MaxBody == 8

\* byte values of the bodies: a control character that is a valid date
\* component, one that is a valid day, hour, minute and second but no
\* month, and the letter A, which is no valid date component
ByteSamples == {1, 13, 65}

\* the bodies of the input frames
Bodies == UNION {[1..k -> ByteSamples] : k \in 0..MaxBody}

\* an 8-byte header with the given type byte
FrameHeader(t) == <<0, 1, 0, 6, 0, 1, 1, t>>

\* inputs of unscramble_data: frames with a body, and the beginnings of a
\* header
UnscrambleInputs ==
    {FrameHeader(4) \o b : b \in Bodies}
    \cup {SubSeq(FrameHeader(4), 1, k) : k \in 0..7}

\* fragment lists of the inputs of data4
DecSchemas ==
    Schemas
    \cup { << [name |-> "Time", offset |-> 0, bytes_len |-> 6,
               fragment_type |-> "Date", fraction |-> None],
              [name |-> "Ppv", offset |-> 6, bytes_len |-> 2,
               fragment_type |-> "Integer", fraction |-> None] >>,
           << [name |-> "Inverter SN", offset |-> 0, bytes_len |-> 1,
               fragment_type |-> "String", fraction |-> None],
              [name |-> "Epv", offset |-> 4, bytes_len |-> 2,
               fragment_type |-> "Integer", fraction |-> None],
              [name |-> "Model", offset |-> 1, bytes_len |-> 1,
               fragment_type |-> "String", fraction |-> None] >>,
           << [name |-> "Inverter SN", offset |-> 0, bytes_len |-> 2,
               fragment_type |-> "Integer", fraction |-> None],
              [name |-> "Model", offset |-> 2, bytes_len |-> 1,
               fragment_type |-> "String", fraction |-> None] >>,
           << [name |-> "Vpv", offset |-> 0, bytes_len |-> 2,
               fragment_type |-> "Float", fraction |-> Some(0)],
              [name |-> "Fac", offset |-> 1, bytes_len |-> 2,
               fragment_type |-> "Float", fraction |-> Some(10)],
              [name |-> "Pac", offset |-> 2, bytes_len |-> 1,
               fragment_type |-> "Float", fraction |-> None] >>,
           << [name |-> "Ppv", offset |-> 0, bytes_len |-> 1,
               fragment_type |-> "Integer", fraction |-> None],
              [name |-> "Eac", offset |-> 1, bytes_len |-> 5,
               fragment_type |-> "Integer", fraction |-> None] >>,
           << [name |-> "Ppv", offset |-> 0, bytes_len |-> 1,
               fragment_type |-> "Integer", fraction |-> None],
              [name |-> "Ppv", offset |-> 1, bytes_len |-> 1,
               fragment_type |-> "Integer", fraction |-> None] >> }

\* bodies of the frames given to the dispatch on the type byte
DispatchBodies == {<<>>, <<65>>, <<65, 13>>, <<1, 1, 1, 1, 1, 1, 1, 13>>}

\* the state of a session that has not started, with the given call
CodecInitWith(c) ==
    /\ inverter \in Schemas
    /\ sess = "dialing"
    /\ inbound_open = TRUE
    /\ upstream_open = FALSE
    /\ cancelled = FALSE
    /\ pc = [d \in Dirs |-> "idle"]
    /\ rdy = [d \in Dirs |-> Pending]
    /\ peer_closed = [d \in Dirs |-> FALSE]
    /\ delivered = [d \in Dirs |-> 0]
    /\ buf = [d \in Dirs |-> <<>>]
    /\ fwd = [d \in Dirs |-> <<>>]
    /\ woff = [d \in Dirs |-> 0]
    /\ bytes_forwarded = [d \in Dirs |-> 0]
    /\ result = [d \in Dirs |-> None]
    /\ reported = [d \in Dirs |-> None]
    /\ datamessage = NoMessage
    /\ msg_id = 0
    /\ todo = {}
    /\ inverter_messages = <<>>
    /\ message_data = <<>>
    /\ remote_messages = <<>>
    /\ errlog = <<>>
    /\ rlog = [d \in Dirs |-> <<>>]
    /\ out = [d \in Dirs |-> <<>>]
    /\ call = c
    /\ ret = <<>>
    /\ ServerIdle

sessionvars == <<inverter, sess, inbound_open, upstream_open, cancelled, pc, rdy,
                 peer_closed, delivered, buf, fwd, woff, bytes_forwarded, result,
                 reported, datamessage, msg_id, todo, inverter_messages,
                 message_data, remote_messages, errlog, rlog, out>>

\* utils::unscramble_data applied to the argument, then to its own output
ApplyUnscramble ==
    /\ call.fn = "unscramble_data"
    /\ Len(ret) < 2
    /\ ret # <<>> => ret[Len(ret)].ok
    /\ ret' = Append(ret, unscramble_data(IF ret = <<>> THEN call.arg
                                          ELSE ret[Len(ret)].val))
    /\ UNCHANGED <<call, servervars, sessionvars>>

\* MessageType::from(byte)
ApplyClassify ==
    /\ call.fn = "MessageType::from"
    /\ ret = <<>>
    /\ ret' = <<MessageTypeFrom(call.arg)>>
    /\ UNCHANGED <<call, servervars, sessionvars>>

\* DataMessage::data4(fragments, bytes), in either build, at any time
ApplyData4 ==
    /\ call.fn = "data4"
    /\ ret = <<>>
    /\ \E overflow_checks \in BOOLEAN : \E time \in Times :
         ret' = <<data4(call.arg.frags, call.arg.bytes, overflow_checks, time)>>
    /\ UNCHANGED <<call, servervars, sessionvars>>

\* the dispatch of handle_inverter_data and run_decrypt on the type byte,
\* run on the same schema and buffer up to twice in one build, each run
\* with its own reading of the clock
ApplyDecode ==
    /\ call.fn = "decode"
    /\ Len(ret) < 2
    /\ \E time \in Times :
         ret' = Append(ret, Decode(call.arg.frags, call.arg.bytes,
                                   call.arg.overflow_checks, time))
    /\ UNCHANGED <<call, servervars, sessionvars>>

\* ---- DataMessage::meter_data (data_message.rs:171-263) ----

\* METER_DATA_KEYS (data_message.rs:194-235)
METER_DATA_KEYS ==
    << "active_energy", "reactive_energy", "active_power_l1",
       "active_power_l2", "active_power_l3", "reactive_power_l1",
       "reactive_power_l2", "reactive_power_l3", "apparent_power_l1",
       "apparent_power_l2", "apparent_power_l3", "power_factor_l1",
       "power_factor_l2", "power_factor_l3", "voltage_l1",
       "voltage_l2", "voltage_l3", "current_l1",
       "current_l2", "current_l3", "active_power",
       "reactive_power", "apparent_power", "power_factor",
       "frequency", "posi_active_power", "reverse_active_power",
       "posi_reactive_power", "reverse_reactive_power", "apparent_energy",
       "total_active_energy_l1", "total_active_energy_l2", "total_active_energy_l3",
       "total_reactive_energy_l1", "total_reactive_energy_l2", "total_reactive_energy_l3",
       "total_energy", "l1_voltage_2", "l2_voltage_3",
       "l3_voltage_1" >>

RECURSIVE SplitComma(_, _)
\* str::split(','): the pieces between the commas, empty ones included;
\* cur is the piece being collected
SplitComma(s, cur) ==
    IF s = <<>> THEN <<cur>>
    ELSE IF Head(s) = 44 THEN <<cur>> \o SplitComma(Tail(s), <<>>)
         ELSE SplitComma(Tail(s), Append(cur, Head(s)))

RECURSIVE NonEmpty(_)
\* .filter(|s| !s.is_empty())
NonEmpty(q) ==
    IF q = <<>> THEN <<>>
    ELSE IF Head(q) = <<>> THEN NonEmpty(Tail(q))
         ELSE <<Head(q)>> \o NonEmpty(Tail(q))

\* the split without its filter
MeterValuesMut(bytes) == SplitComma(hex_bytes_to_ascii(bytes), <<>>)

\* the `values` of meter_data (data_message.rs:237-241)
MeterValues(bytes) == NonEmpty(SplitComma(hex_bytes_to_ascii(bytes), <<>>))

RECURSIVE MeterLoop(_, _, _)
\* the loop over values.iter().enumerate() (data_message.rs:243-253); i is
\* the 0-based index of the next value
MeterLoop(values, i, data) ==
    IF i >= Len(values) THEN data
    ELSE IF i >= Len(METER_DATA_KEYS) THEN data
         ELSE MeterLoop(values, i + 1,
                        MapInsert(data, METER_DATA_KEYS[i + 1], values[i + 1]))

\* DataMessage::meter_data: [kind, msg]; the slices of lines 174, 177, 182
\* and 191 panic on a frame of fewer than 50 bytes; time is what Local::now()
\* returns at line 180
meter_data(original_bytes, time) ==
    IF Len(original_bytes) < 50 THEN [kind |-> "panic", msg |-> NoMessage]
    ELSE LET header == SubSeq(original_bytes, 1, 8)
             bytes == SubSeq(original_bytes, 9, Len(original_bytes) - 2)
             serial_number == Some(FilterAlnum(hex_bytes_to_ascii(SubSeq(bytes, 1, 30))))
             rest == SubSeq(bytes, 41, Len(bytes))
         IN  [kind |-> "ok",
              msg |-> [raw |-> original_bytes, header |-> header,
                       data_type |-> "MeterData",
                       data |-> MeterLoop(MeterValues(rest), 0, <<>>),
                       time |-> time, serial_number |-> serial_number]]

\* largest number of values in a meter frame of the inputs
MaxTokens == 42

\* the i-th value of an input meter frame: the two digits of i
Token(i) == PadLeft(i, 2)

RECURSIVE JoinTokens(_, _, _)
\* the values i..n separated by commas, with one more comma in front of
\* value number gap
JoinTokens(i, n, gap) ==
    IF i > n THEN <<>>
    ELSE (IF i = gap THEN <<44>> ELSE <<>>)
         \o Token(i)
         \o (IF i < n THEN <<44>> ELSE <<>>)
         \o JoinTokens(i + 1, n, gap)

\* the serial number region and the ten bytes after it, as in
\* tests::test_meter_data
MeterPrefix ==
    <<68, 88, 68, 51, 51, 51, 51, 51, 51, 51>> \o [i \in 1..20 |-> 0]
    \o <<0, 67, 23, 12, 20, 10, 55, 12, 0, 242>>

\* a meter frame with n values, an empty value before value number gap (none
\* when gap is 0), a comma at the end when trailing, and two CRC bytes
MeterFrame(n, gap, trailing) ==
    FrameHeader(27) \o MeterPrefix \o JoinTokens(1, n, gap)
    \o (IF trailing THEN <<44>> ELSE <<>>) \o <<52, 129>>

\* frames too short for meter_data
ShortMeterFrames ==
    {FrameHeader(27) \o [i \in 1..k |-> 48] : k \in {0, 1, 31, 41}}

\* DataMessage::meter_data(bytes), run on the same buffer up to twice, each
\* run with its own reading of the clock
ApplyMeterData ==
    /\ call.fn = "meter_data"
    /\ Len(ret) < 2
    /\ \E time \in Times :
         ret' = Append(ret, meter_data(call.arg.bytes, time))
    /\ UNCHANGED <<call, servervars, sessionvars>>

\* ---- utils::hex_to_bytes (utils.rs:26-34) ----

\* digits of a small letter counted from 0 where the code counts them from 10
HexDigitMut(c) ==
    IF c \in 48..57 THEN c - 48
    ELSE IF c \in 65..70 THEN c - 55
    ELSE IF c \in 97..102 THEN c - 97
    ELSE -1

\* char::to_digit(16) as from_str_radix uses it: the value of a hex digit of
\* either case, -1 for any other byte
HexDigit(c) ==
    IF c \in 48..57 THEN c - 48
    ELSE IF c \in 65..70 THEN c - 55
    ELSE IF c \in 97..102 THEN c - 87
    ELSE -1

\* std::str::from_utf8(chunk).unwrap() followed by
\* u8::from_str_radix(s, 16).unwrap() on a chunk of one or two bytes
\* (utils.rs:30-31): a leading '+' before a digit is accepted as a sign, a
\* lone sign and every other byte make the unwrap panic
FromStrRadix16(chunk) ==
    LET digits == IF chunk[1] = 43 /\ Len(chunk) > 1 THEN Tail(chunk) ELSE chunk
    IN  IF \E i \in 1..Len(digits) : HexDigit(digits[i]) < 0
        THEN [ok |-> FALSE, val |-> 0]
        ELSE [ok |-> TRUE,
              val |-> IF Len(digits) = 1 THEN HexDigit(digits[1])
                      ELSE 16 * HexDigit(digits[1]) + HexDigit(digits[2])]

RECURSIVE Chunks2(_)
\* hex.as_bytes().chunks(2): pairs of bytes, the last chunk a single byte
\* when the length is odd
Chunks2(hex) ==
    IF hex = <<>> THEN <<>>
    ELSE IF Len(hex) = 1 THEN <<hex>>
         ELSE <<SubSeq(hex, 1, 2)>> \o Chunks2(SubSeq(hex, 3, Len(hex)))

\* utils::hex_to_bytes: [kind, val], kind "panic" when an unwrap panics
hex_to_bytes(hex) ==
    LET parsed == [i \in 1..Len(Chunks2(hex)) |-> FromStrRadix16(Chunks2(hex)[i])]
    IN  IF \E i \in 1..Len(parsed) : ~parsed[i].ok
        THEN [kind |-> "panic", val |-> <<>>]
        ELSE [kind |-> "ok", val |-> [i \in 1..Len(parsed) |-> parsed[i].val]]

\* one hex digit of a byte as "{:02x}" writes it (server.rs:58), or in
\* capitals as the frames of the tests are written (data_message.rs:327)
HexChar(n, upper) == IF n < 10 THEN 48 + n ELSE IF upper THEN 55 + n ELSE 87 + n

RECURSIVE HexText(_, _)
\* the fold of server.rs:57-60: two hex digits for every byte
HexText(bytes, upper) ==
    IF bytes = <<>> THEN <<>>
    ELSE <<HexChar(Head(bytes) \div 16, upper), HexChar(Head(bytes) % 16, upper)>>
         \o HexText(Tail(bytes), upper)

\* longest text and longest byte sequence of the inputs of hex_to_bytes
MaxHex == 4

\* characters of the texts: digits, letters of both cases that are hex
\* digits, a letter that is none, and the two signs
HexChars == {48, 57, 65, 102, 103, 43, 45}

\* the texts given to hex_to_bytes
HexStrings == UNION {[1..k -> HexChars] : k \in 0..MaxHex}

\* the byte sequences rendered and parsed back: every single byte, and the
\* sequences over a few bytes
HexSources ==
    {<<b>> : b \in 0..255}
    \cup UNION {[1..k -> {0, 10, 171, 255}] : k \in 0..MaxHex}

\* utils::hex_to_bytes(hex)
ApplyHexToBytes ==
    /\ call.fn = "hex_to_bytes"
    /\ ret = <<>>
    /\ ret' = <<hex_to_bytes(call.arg.hex)>>
    /\ UNCHANGED <<call, servervars, sessionvars>>

\* a call with its input
CodecInit ==
    /\ worker_threads = 1
    /\ \/ \E b \in UnscrambleInputs :
            CodecInitWith([fn |-> "unscramble_data", arg |-> b])
       \/ \E t \in 0..255 :
            CodecInitWith([fn |-> "MessageType::from", arg |-> t])
       \/ \E f \in DecSchemas : \E b \in Bodies :
            CodecInitWith([fn |-> "data4",
                           arg |-> [frags |-> f, bytes |-> FrameHeader(4) \o b]])
       \/ \E f \in DecSchemas : \E k \in 0..7 :
            CodecInitWith([fn |-> "data4",
                           arg |-> [frags |-> f,
                                    bytes |-> SubSeq(FrameHeader(4), 1, k)]])
       \/ \E f \in DecSchemas : \E t \in 0..255 : \E b \in DispatchBodies :
         \E overflow_checks \in BOOLEAN :
            CodecInitWith([fn |-> "decode",
                           arg |-> [frags |-> f, bytes |-> FrameHeader(t) \o b,
                                    overflow_checks |-> overflow_checks]])
       \/ \E n \in 0..MaxTokens : \E gap \in 0..n : \E trailing \in BOOLEAN :
            CodecInitWith([fn |-> "meter_data",
                           arg |-> [bytes |-> MeterFrame(n, gap, trailing),
                                    tokens |-> [i \in 1..n |-> Token(i)],
                                    gap |-> gap]])
       \/ \E b \in ShortMeterFrames :
            CodecInitWith([fn |-> "meter_data",
                           arg |-> [bytes |-> b, tokens |-> <<>>, gap |-> 0]])
       \/ \E h \in HexStrings :
            CodecInitWith([fn |-> "hex_to_bytes", arg |-> [hex |-> h, from |-> None]])
       \/ \E b \in HexSources : \E upper \in BOOLEAN :
            CodecInitWith([fn |-> "hex_to_bytes",
                           arg |-> [hex |-> HexText(b, upper), from |-> Some(b)]])

CodecNext ==
    \/ ApplyUnscramble
    \/ ApplyClassify
    \/ ApplyData4
    \/ ApplyDecode
    \/ ApplyMeterData
    \/ ApplyHexToBytes

SpecCodec == CodecInit /\ [][CodecNext]_vars

\* ------------------------------------------------------------------------
\* The listener task of run_server and the tasks it spawns (server.rs:318-334)
\* ------------------------------------------------------------------------

\* the most worker threads a runtime is given: #[tokio::main] (main.rs:53)
\* starts one per CPU of the machine.  The bound is above MaxConns, so that
\* every connection task can be inside a handler that never returns while
\* the listener is still polled; at most MaxConns threads can be held, and
\* all the counts above MaxConns behave alike.
MaxWorkers == 8

\* connections whose task has been spawned
Spawned == {i \in Conns : tasks[i] # "none"}

\* a task inside a handler that never returns keeps its worker thread
Busy == {i \in Conns : tasks[i] = "hung"}

\* a worker thread is free to poll a task
CanRun == Cardinality(Busy) < worker_threads

\* the ways handle_connection ends: Ok(()), Err (logged by the task), panic
Ended == {"returned_ok", "returned_err", "panicked"}

ListenerAfterAcceptErrMut == "accepting"

\* `listener.accept().await?`: the Err leaves the loop and the task returns
ListenerAfterAcceptErr == "ended"

\* accept() returns a connection: its handler is spawned as a task of its
\* own and the loop goes back to accept()
AcceptOk ==
    /\ listener = "accepting" /\ CanRun
    /\ Cardinality(Spawned) < MaxConns
    /\ tasks' = [tasks EXCEPT ![Cardinality(Spawned) + 1] = "dialing"]
    /\ last_accept' = "ok"
    /\ UNCHANGED <<listener, cancelled_of, exits, worker_threads, codecvars, sessionvars>>

\* accept() returns an error
AcceptErr ==
    /\ listener = "accepting" /\ CanRun
    /\ listener' = ListenerAfterAcceptErr
    /\ last_accept' = "err"
    /\ UNCHANGED <<tasks, cancelled_of, exits, worker_threads, codecvars, sessionvars>>

\* one step of the task of connection i, from status `from` to status `to`
TaskStep(i, from, to) ==
    /\ tasks[i] = from /\ CanRun
    /\ tasks' = [tasks EXCEPT ![i] = to]
    /\ UNCHANGED <<listener, last_accept, cancelled_of, exits, worker_threads,
                   codecvars, sessionvars>>

\* TcpStream::connect succeeded (server.rs:207-213)
TaskDialOk(i) == TaskStep(i, "dialing", "running")

\* TcpStream::connect failed: handle_connection returns Err, the task logs
\* it and ends
TaskDialFail(i) == TaskStep(i, "dialing", "returned_err")

\* one token for all the sessions
TokenOfMut(i) == 1

\* the token the loops of connection i watch and cancel: the one made by
\* CancellationToken::new() in its own handle_connection (server.rs:218-220)
TokenOf(i) == i

\* the ways a copy loop leaves: "end" is EOF or an I/O error, "cancel" is
\* the cancellation branch of its select, open only when the token is set
ExitWays(i) == {"end"} \cup (IF cancelled_of[TokenOf(i)] THEN {"cancel"} ELSE {})

\* a copy loop of connection i returns and its `then` closure cancels the
\* token; with the second return the join! completes and handle_connection
\* returns Ok(())
TaskLoopExit(i, how) ==
    /\ tasks[i] \in {"running", "draining"} /\ CanRun
    /\ how \in ExitWays(i)
    /\ tasks' = [tasks EXCEPT ![i] = IF @ = "running" THEN "draining"
                                     ELSE SessAfterJoin(Err, Err)]
    /\ cancelled_of' = [cancelled_of EXCEPT ![TokenOf(i)] = TokenAfterExit(@)]
    /\ exits' = [exits EXCEPT ![i] = Append(@, how)]
    /\ UNCHANGED <<listener, last_accept, worker_threads, codecvars, sessionvars>>

\* a handler panics: the task unwinds and ends
TaskPanics(i) ==
    \/ TaskStep(i, "running", "panicked")
    \/ TaskStep(i, "draining", "panicked")

\* a handler enters the padding loop with a wrapped count and never returns
TaskHangs(i) ==
    \/ TaskStep(i, "running", "hung")
    \/ TaskStep(i, "draining", "hung")

\* run_server on a machine of 1 to MaxWorkers CPUs
ServerInit ==
    /\ CodecInitWith(NoCall)
    /\ worker_threads \in 1..MaxWorkers

ServerNext ==
    \/ AcceptOk
    \/ AcceptErr
    \/ \E i \in Conns : TaskDialOk(i)
    \/ \E i \in Conns : TaskDialFail(i)
    \/ \E i \in Conns : \E how \in {"end", "cancel"} : TaskLoopExit(i, how)
    \/ \E i \in Conns : TaskPanics(i)
    \/ \E i \in Conns : TaskHangs(i)

SpecServer == ServerInit /\ [][ServerNext]_vars

\* ------------------------------------------------------------------------
\* Properties of the decoders and of the codec
\* ------------------------------------------------------------------------

\* the bytes after the 8-byte header
BodyOf(bytes) == SubSeq(bytes, 9, Len(bytes))

\* the fragment lies within the body
InRange(fragment, body) == fragment.offset + fragment.bytes_len <= Len(body)

\* the bytes of a fragment that lies within the body
SliceOf(fragment, body) ==
    SubSeq(body, fragment.offset + 1, fragment.offset + fragment.bytes_len)

\* the fragment lies within the body and has a value in every build
Decodable(fragment, body) ==
    /\ InRange(fragment, body)
    /\ \A overflow_checks \in BOOLEAN :
         FragmentValue(fragment, SliceOf(fragment, body), overflow_checks).kind = "ok"

\* a date fragment within the body whose bytes are no date
BadDate(fragment, body) ==
    /\ fragment.fragment_type = "Date"
    /\ InRange(fragment, body)
    /\ LET slice == SliceOf(fragment, body)
       IN  \/ ~ValidYmd(2000 + slice[1], slice[2], slice[3])
           \/ ~ValidHms(slice[4], slice[5], slice[6])

\* data4 has returned from a call on a whole header
Data4Returned == call.fn = "data4" /\ ret # <<>> /\ Len(call.arg.bytes) >= 8

\* C12: when some fragment of the schema ends beyond the body and the others
\* that lie within it are decodable, data4 returns a message whose fields are
\* exactly the fragments within the body, each with its value.
C12_OutOfRangeFragmentOmitted ==
    Data4Returned
    => LET frags == call.arg.frags
           body == BodyOf(call.arg.bytes)
           inside == {i \in 1..Len(frags) : InRange(frags[i], body)}
       IN  /\ inside # 1..Len(frags)
           /\ \A i \in inside : Decodable(frags[i], body)
           => /\ ret[1].kind = "ok"
              /\ DOMAIN ret[1].msg.data = {frags[i].name : i \in inside}
              /\ \A i \in inside :
                   ret[1].msg.data[frags[i].name]
                   = FragmentValue(frags[i], SliceOf(frags[i], body), TRUE).val

\* C13: when a date fragment has an out-of-range component and the other
\* fragments are decodable, data4 returns a message that holds the other
\* fragments' values and not the date.
C13_BadDateSkipped ==
    Data4Returned
    => LET frags == call.arg.frags
           body == BodyOf(call.arg.bytes)
           bad == {i \in 1..Len(frags) : BadDate(frags[i], body)}
           others == (1..Len(frags)) \ bad
       IN  /\ bad # {}
           /\ \A i \in others : Decodable(frags[i], body)
           => /\ ret[1].kind = "ok"
              /\ DOMAIN ret[1].msg.data = {frags[i].name : i \in others}
              /\ \A i \in others :
                   ret[1].msg.data[frags[i].name]
                   = FragmentValue(frags[i], SliceOf(frags[i], body), TRUE).val

\* C17: the classification of a type byte is defined for every value of
\* 0..255: 0x03 is Data3, 0x04 Data4, 0x16 Ping, 0x18 Configure, 0x19
\* Identify, and every other value is Unknown.
C17_ClassificationTable ==
    (call.fn = "MessageType::from" /\ ret # <<>>)
    => /\ call.arg \in 0..255
       /\ Len(ret) = 1
       /\ ret[1] \in {"Data3", "Data4", "Ping", "Configure", "Identify", "Unknown"}
       /\ ret[1] = "Data3" <=> call.arg = 3
       /\ ret[1] = "Data4" <=> call.arg = 4
       /\ ret[1] = "Ping" <=> call.arg = 22
       /\ ret[1] = "Configure" <=> call.arg = 24
       /\ ret[1] = "Identify" <=> call.arg = 25
       /\ ret[1] = "Unknown" <=> call.arg \notin {3, 4, 22, 24, 25}

\* C17 witness: the byte 0x16 has been classified as Ping
C17_Witness ==
    call.fn = "MessageType::from" /\ call.arg = 22 /\ ret = <<"Ping">>

\* C18: on an input of at least 8 bytes unscramble_data succeeds, and
\* applied to its own output it succeeds again and returns the input.
C18_UnscrambleInvolution ==
    (call.fn = "unscramble_data" /\ Len(call.arg) >= 8)
    => /\ Len(ret) >= 1 => ret[1].ok
       /\ Len(ret) = 2 => ret[2].ok /\ ret[2].val = call.arg

\* C18 witness: a frame whose body is longer than the mask has been
\* unscrambled twice; the first result differs from the frame, the second
\* is the frame
C18_Witness ==
    /\ call.fn = "unscramble_data"
    /\ Len(call.arg) = 8 + MaxBody
    /\ Len(ret) = 2
    /\ ret[1].val # call.arg
    /\ ret[2].val = call.arg

\* the bit of weight 2^k of the byte a
Bit(a, k) == (a \div (2 ^ k)) % 2

\* the bitwise exclusive or of two bytes, bit by bit
XorRef(a, b) ==
    LET w(k) == IF Bit(a, k) # Bit(b, k) THEN 2 ^ k ELSE 0
    IN  w(0) + w(1) + w(2) + w(3) + w(4) + w(5) + w(6) + w(7)

\* the code points of "Growatt"
Growatt == <<71, 114, 111, 119, 97, 116, 116>>

\* C19: unscramble_data fails exactly on inputs of fewer than 8 bytes;
\* otherwise the output has the length of the input, its first 8 bytes are
\* the input's, and the byte at index i >= 8 (from 0) is the input's byte
\* xor "Growatt"[(i - 8) mod 7].
C19_UnscrambleReference ==
    (call.fn = "unscramble_data" /\ ret # <<>>)
    => /\ ret[1].ok <=> Len(call.arg) >= 8
       /\ ret[1].ok
          => /\ Len(ret[1].val) = Len(call.arg)
             /\ \A i \in 0..(Len(call.arg) - 1) :
                  ret[1].val[i + 1] =
                      IF i < 8 THEN call.arg[i + 1]
                      ELSE XorRef(call.arg[i + 1], Growatt[((i - 8) % 7) + 1])

\* C19 witness: a frame whose body wraps around the mask has been
\* unscrambled once, and its last byte, xored with the first mask byte
\* again, has changed
C19_Witness ==
    /\ call.fn = "unscramble_data"
    /\ Len(call.arg) = 16
    /\ Len(ret) = 1
    /\ ret[1].ok
    /\ ret[1].val[16] = XorRef(call.arg[16], 71)
    /\ ret[1].val[16] # call.arg[16]

\* C20: on a frame of at least 50 bytes meter_data returns a message whose
\* fields pair the i-th non-empty token of the body with the i-th key:
\* there are min(40, number of non-empty tokens) fields, the tokens after
\* the 40th are dropped, and every key has the token of its own position.
C20_MeterTokensZipKeys ==
    (call.fn = "meter_data" /\ ret # <<>> /\ Len(call.arg.bytes) >= 50)
    => LET tokens == call.arg.tokens
           m == IF Len(tokens) < 40 THEN Len(tokens) ELSE 40
       IN  /\ ret[1].kind = "ok"
           /\ Len(METER_DATA_KEYS) = 40
           /\ Cardinality(DOMAIN ret[1].msg.data) = m
           /\ DOMAIN ret[1].msg.data = {METER_DATA_KEYS[i] : i \in 1..m}
           /\ \A i \in 1..m : ret[1].msg.data[METER_DATA_KEYS[i]] = tokens[i]

\* C20 witness: a frame with more than 40 values, an empty value among them
\* and a comma at the end has been decoded into 40 fields
C20_Witness ==
    /\ call.fn = "meter_data"
    /\ Len(call.arg.tokens) > 40
    /\ call.arg.gap \in 2..40
    /\ ret # <<>>
    /\ ret[1].kind = "ok"
    /\ Cardinality(DOMAIN ret[1].msg.data) = 40
    /\ ret[1].msg.data["l3_voltage_1"] = <<52, 48>>

\* the fragments of the list that are the only one of their name
UniqueName(frags) ==
    {i \in 1..Len(frags) :
        \A j \in 1..Len(frags) : frags[j].name = frags[i].name => j = i}

\* the big-endian number of the bytes of a slice
SliceNumber(slice) == FromBeBytes(slice)

\* C27: in a message returned by data4 the value of a FLOAT fragment is its
\* number divided by 1 when the fraction is absent or zero and by the
\* fraction otherwise; it is never the result of a division by zero.
C27_FloatDivisorNeverZero ==
    (Data4Returned /\ ret[1].kind = "ok")
    => LET frags == call.arg.frags
           body == BodyOf(call.arg.bytes)
       IN  \A i \in UniqueName(frags) :
             frags[i].fragment_type = "Float"
             => LET value == SliceNumber(SliceOf(frags[i], body))
                    fraction == frags[i].fraction
                    text == ret[1].msg.data[frags[i].name]
                IN  /\ text \notin {<<105, 110, 102>>, <<78, 97, 78>>}
                    /\ text = IF fraction = None \/ fraction = Some(0)
                              THEN U32ToString(value)
                              ELSE F32DivToString(value, fraction[1])

\* C28: when every fragment lies within the body, has a length of 1 or more
\* and is no bad date, data4 returns a message, whatever the length of its
\* INTEGER and FLOAT fragments, and an INTEGER fragment of up to 4 bytes has
\* the decimal text of its bytes read as a big-endian number.
C28_IntegerAnyLength ==
    Data4Returned
    => LET frags == call.arg.frags
           body == BodyOf(call.arg.bytes)
       IN  (\A i \in 1..Len(frags) : /\ InRange(frags[i], body)
                                     /\ frags[i].bytes_len >= 1
                                     /\ ~BadDate(frags[i], body))
           => /\ ret[1].kind = "ok"
              /\ \A i \in UniqueName(frags) :
                   (frags[i].fragment_type = "Integer" /\ frags[i].bytes_len <= 4)
                   => ret[1].msg.data[frags[i].name]
                      = U32ToString(SliceNumber(SliceOf(frags[i], body)))

\* the STRING fragments of the list named "Inverter SN"
SerialFragments(frags) ==
    {i \in 1..Len(frags) : /\ frags[i].fragment_type = "String"
                           /\ frags[i].name = "Inverter SN"}

\* the largest number of a non-empty set of numbers
Max(S) == CHOOSE x \in S : \A y \in S : y <= x

\* C29: in a message returned by data4 the serial number is present exactly
\* when the schema has a STRING fragment named "Inverter SN", and is then the
\* alphanumeric characters of that fragment's bytes; a fragment of another
\* type or of another name does not set it.
C29_SerialFromInverterSN ==
    (Data4Returned /\ ret[1].kind = "ok")
    => LET frags == call.arg.frags
           body == BodyOf(call.arg.bytes)
           sn == SerialFragments(frags)
       IN  /\ sn = {} <=> ret[1].msg.serial_number = None
           /\ sn # {}
              => ret[1].msg.serial_number
                 = Some(FilterAlnum(SliceOf(frags[Max(sn)], body)))

\* C29 witness: a schema with the STRING fragment "Inverter SN" and a later
\* STRING fragment "Model" has been decoded; the serial number is "A" and
\* the model is the empty text
C29_Witness ==
    /\ Data4Returned
    /\ ret[1].kind = "ok"
    /\ Len(call.arg.frags) = 3
    /\ ret[1].msg.serial_number = Some(<<65>>)
    /\ ret[1].msg.data["Model"] = <<>>
    /\ ret[1].msg.data["Inverter SN"] = <<65>>

\* the byte is a hex digit
IsHexDigit(c) == c \in (48..57) \cup (65..70) \cup (97..102)

\* C22: hex_to_bytes returns no bytes for a text of odd length or with a
\* character that is no hex digit.
C22_BadHexRejected ==
    (call.fn = "hex_to_bytes" /\ ret # <<>>)
    => LET hex == call.arg.hex
       IN  (Len(hex) % 2 = 1 \/ \E i \in 1..Len(hex) : ~IsHexDigit(hex[i]))
           => ret[1].kind # "ok"

\* C23: hex_to_bytes of the text that renders a byte sequence with two hex
\* digits for every byte returns that byte sequence.
C23_HexRoundTrip ==
    (call.fn = "hex_to_bytes" /\ ret # <<>> /\ call.arg.from # None)
    => /\ ret[1].kind = "ok"
       /\ ret[1].val = call.arg.from[1]

\* C23 witness: the bytes ab 0a, rendered in small letters, have been parsed
\* back
C23_Witness ==
    /\ call.fn = "hex_to_bytes"
    /\ call.arg.from = Some(<<171, 10>>)
    /\ call.arg.hex = <<97, 98, 48, 97>>
    /\ ret # <<>>
    /\ ret[1].val = <<171, 10>>

\* C21: two runs of the decoder on the same buffer with the same schema,
\* whatever the clock reads in each of them, end alike and return the same
\* type, header, raw bytes, serial number and fields; the messages have no
\* other component than these and their time.
C21_DecodeDeterministic ==
    (call.fn \in {"decode", "meter_data"} /\ Len(ret) = 2)
    => /\ ret[1].kind = ret[2].kind
       /\ ret[1].msg.data_type = ret[2].msg.data_type
       /\ ret[1].msg.header = ret[2].msg.header
       /\ ret[1].msg.raw = ret[2].msg.raw
       /\ ret[1].msg.serial_number = ret[2].msg.serial_number
       /\ ret[1].msg.data = ret[2].msg.data
       /\ DOMAIN ret[1].msg = DOMAIN ret[2].msg

\* C21 witness: a Data4 frame has been decoded twice, at two readings of the
\* clock, into messages with a serial number and two fields that differ in
\* their time
C21_Witness ==
    /\ call.fn = "decode"
    /\ Len(ret) = 2
    /\ ret[2].kind = "ok"
    /\ ret[2].msg.data_type = "Data4"
    /\ ret[2].msg.serial_number = Some(<<65>>)
    /\ DOMAIN ret[2].msg.data = {"Inverter SN", "Ppv"}
    /\ ret[2].msg.data["Ppv"] = <<49, 51>>
    /\ ret[1].msg.time # ret[2].msg.time

\* C24: an error returned by accept() ends the listener task, and once it
\* has ended no further connection is accepted; when the task of a
\* connection ends, in whatever way, the listener and the tasks of all
\* other connections stay where they are.
C24_ListenerAndSessionsIsolated ==
    [][/\ last_accept' = "err" => listener' = "ended"
       /\ listener = "ended" => listener' = "ended" /\ Spawned' = Spawned
       /\ \A i \in Conns :
            (tasks[i] \notin Ended /\ tasks'[i] \in Ended)
            => /\ listener' = listener
               /\ \A j \in Conns \ {i} : tasks'[j] = tasks[j]]_vars

\* C24 witness: accept() has failed and the listener has ended with the
\* third connection never accepted; the first session failed to dial and
\* the second is still copying
C24_Witness ==
    /\ listener = "ended" /\ last_accept = "err"
    /\ tasks[1] = "returned_err" /\ tasks[2] = "running"
    /\ \A i \in Conns : i > 2 => tasks[i] = "none"

\* C31: the count a copy loop returns is the number of bytes it wrote to the
\* opposite peer, which is the sum of the lengths of the chunks whose
\* write_all succeeded; each time the loop is back at its select its
\* counter is that number too, so a chunk that was read and not written
\* adds nothing.
C31_CountIsBytesWritten ==
    \A d \in Dirs :
        /\ pc[d] = "select" => /\ bytes_forwarded[d] = Len(out[d])
                               /\ Whole(out[d], rlog[d])
        /\ (result[d] # None /\ result[d][1].ok)
           => /\ result[d][1].count = Len(out[d])
              /\ Whole(out[d], rlog[d])

\* C31 witness: the inverter loop has read a short chunk, which it did not
\* write, and a Ping frame, which it wrote, and has returned the length of
\* the Ping frame
C31_Witness ==
    /\ rlog["inv"] = <<ShortChunk, PingChunk>>
    /\ out["inv"] = PingChunk
    /\ result["inv"] = Some(Ok(Len(PingChunk)))

\* the message_data rows stored for chunk n of the inverter side
FieldRowsOf(n) == {j \in 1..Len(message_data) : message_data[j].chunk = n}

\* handle_inverter_data has returned for chunk n of the inverter side
HandlerReturned(n) ==
    \/ n < Len(rlog["inv"])
    \/ n = Len(rlog["inv"]) /\ pc["inv"] \in {"write", "select", "done"}

\* C32: every message_data row carries the id of an inverter_messages row
\* stored for the same chunk; a message_data insert is under way only when
\* the header insert of the chunk in hand has succeeded; and when the
\* handler has returned from a chunk whose header row is stored, the chunk
\* has one message_data row per decoded field.
C32_FieldRowsFollowHeader ==
    /\ \A j \in 1..Len(message_data) :
          /\ \E i \in 1..Len(inverter_messages) :
                /\ inverter_messages[i].id = message_data[j].message_id
                /\ inverter_messages[i].chunk = message_data[j].chunk
          /\ ~Logged("inverter_messages", "inv", message_data[j].chunk)
    /\ (sess = "running" /\ pc["inv"] = "db_field")
       => /\ msg_id \in 1..Len(inverter_messages)
          /\ inverter_messages[msg_id].id = msg_id
          /\ inverter_messages[msg_id].chunk = Len(rlog["inv"])
    /\ \A i \in 1..Len(inverter_messages) :
          HandlerReturned(inverter_messages[i].chunk)
          => LET n == inverter_messages[i].chunk
             IN  /\ {message_data[j].key : j \in FieldRowsOf(n)}
                      = DOMAIN MessageOf(n).data
                 /\ Cardinality(FieldRowsOf(n))
                      = Cardinality(DOMAIN MessageOf(n).data)
                 /\ \A j \in FieldRowsOf(n) :
                       message_data[j].message_id = inverter_messages[i].id

\* C32 witness: the header insert of a first Data4 frame failed and stored
\* nothing; the header row of the second got id 1 and both of its fields
\* are stored under that id
C32_Witness ==
    /\ rlog["inv"] = <<Data4Chunk, Data4Chunk>>
    /\ Logged("inverter_messages", "inv", 1)
    /\ Len(inverter_messages) = 1
    /\ inverter_messages[1].chunk = 2
    /\ Len(message_data) = 2
    /\ \A j \in 1..2 : message_data[j].message_id = 1 /\ message_data[j].chunk = 2
    /\ pc["inv"] = "write"

\* C33: for every message data4, placeholder (through the dispatch) or
\* meter_data returns, raw is the whole frame that was decoded and header
\* is the first 8 bytes of raw.
C33_RawIsWholeFrame ==
    (call.fn \in {"data4", "decode", "meter_data"})
    => \A i \in 1..Len(ret) :
          ret[i].kind = "ok"
          => /\ ret[i].msg.raw = call.arg.bytes
             /\ ret[i].msg.header = SubSeq(ret[i].msg.raw, 1, 8)

\* C34: a copy loop leaves through the cancellation branch only when its
\* read is not ready; a chunk that is ready while the token is already
\* cancelled is read, and when the loop comes back to its select after that
\* read the chunk has been written to the opposite peer.
C34_ReadyChunkForwardedFirst ==
    [][\A d \in Dirs :
          /\ (pc[d] = "select" /\ pc'[d] = "done" /\ rdy'[d] = rdy[d])
             => (rdy[d] = Pending /\ cancelled)
          /\ (cancelled /\ pc[d] = "select" /\ rdy[d].k = "chunk"
              /\ (pc'[d] # pc[d] \/ rdy'[d] # rdy[d]))
             => rlog'[d] = Append(rlog[d], rdy[d].bytes)
          /\ (cancelled /\ pc'[d] = "select"
              /\ (pc[d] # "select" \/ rlog'[d] # rlog[d]))
             => IsSuffix(Last(rlog'[d]), out'[d])]_vars

\* C35: handle_connection returns an error only when the dial has failed,
\* before any copy loop was started; once both loops have returned it
\* returns Ok whatever their results, with the count of each Ok result
\* reported, and for an Err result an error logged and no count reported.
C35_ErrOnlyFromDial ==
    /\ sess = "returned_err"
       => (DialFailed /\ \A d \in Dirs : pc[d] = "idle" /\ result[d] = None)
    /\ (sess # "running" /\ \A d \in Dirs : pc[d] = "done")
       => /\ sess = "returned_ok"
          /\ \A d \in Dirs :
                IF result[d][1].ok
                THEN reported[d] = Some(result[d][1].count)
                ELSE reported[d] = None /\ Logged("join", d, 0)

\* C35 witness: the inverter loop ended with an I/O error after the remote
\* loop had forwarded an acknowledgement and ended with Ok;
\* handle_connection has returned Ok and reported the remote count only
C35_Witness ==
    /\ sess = "returned_ok"
    /\ result["inv"] = Some(Err) /\ reported["inv"] = None
    /\ result["rem"] = Some(Ok(Len(AckChunk)))
    /\ reported["rem"] = Some(Len(AckChunk))

\* C36: a token that is cancelled stays cancelled; a token becomes
\* cancelled only in a step in which a copy loop of its own session
\* returns; and a copy loop leaves through the cancellation branch only
\* after the other loop of its own session has returned, whatever other
\* sessions have done.
C36_TokenScopedAndMonotone ==
    [][\A i \in Conns :
          /\ cancelled_of[i] => cancelled_of'[i]
          /\ cancelled_of'[i] # cancelled_of[i] => Len(exits'[i]) > Len(exits[i])
          /\ (exits'[i] # exits[i] /\ Last(exits'[i]) = "cancel")
             => (exits[i] # <<>> /\ cancelled_of[i])]_vars

\* C36 witness: in the first session one loop ended and the other left
\* through the cancellation branch; the second session has both loops
\* running and its token is not cancelled
C36_Witness ==
    /\ tasks[1] = "returned_ok" /\ exits[1] = <<"end", "cancel">> /\ cancelled_of[1]
    /\ tasks[2] = "running" /\ exits[2] = <<>> /\ ~cancelled_of[2]

\* the fragments of the list that bear the given name
FragmentsNamed(frags, name) == {i \in 1..Len(frags) : frags[i].name = name}

\* C37: the fields of a message returned by data4 are keyed by the names of
\* the schema's fragments, one entry per name, so they never outnumber the
\* fragments; the value of a name is the one decoded from the last fragment
\* of that name in the order of the schema.
C37_LaterFragmentWins ==
    (Data4Returned /\ ret[1].kind = "ok")
    => LET frags == call.arg.frags
           body == BodyOf(call.arg.bytes)
           data == ret[1].msg.data
       IN  /\ DOMAIN data = {frags[i].name : i \in 1..Len(frags)}
           /\ Cardinality(DOMAIN data) <= Len(frags)
           /\ \A name \in DOMAIN data :
                 LET last == frags[Max(FragmentsNamed(frags, name))]
                 IN  data[name]
                       = FragmentValue(last, SliceOf(last, body), TRUE).val

\* C37 witness: two fragments named Ppv were decoded from the bytes 1 and
\* 13, and the message has the single field Ppv = "13"
C37_Witness ==
    /\ Data4Returned /\ ret[1].kind = "ok"
    /\ Len(call.arg.frags) = 2
    /\ FragmentsNamed(call.arg.frags, "Ppv") = {1, 2}
    /\ BodyOf(call.arg.bytes) = <<1, 13>>
    /\ DOMAIN ret[1].msg.data = {"Ppv"}
    /\ ret[1].msg.data["Ppv"] = <<49, 51>>

====
